---------------------------- MODULE Spec2Model ----------------------------
(***************************************************************************)
(* Model of the cortex-mcp memory engine: the MemoryStore (memory_units,   *)
(* edges, vectors), the recall cache, the embedding worker hand-off and    *)
(* the stdio JSON-RPC loop that dispatches tool calls to the handlers.     *)
(*                                                                         *)
(* Conventions                                                             *)
(*  - a text is a sequence of words (a word is a string); the words of a  *)
(*    text are separated by single blanks, so splitting on whitespace     *)
(*    yields the sequence itself;                                          *)
(*  - confidence and importance are fixed-point numbers in thousandths;   *)
(*  - the clock counts whole minutes (Date.now() / 60000);                 *)
(*  - an item's id (uuidv4() in the code) is its row number: fresh and    *)
(*    unique; NULL (0) stands for SQL NULL / undefined.                    *)
(***************************************************************************)
EXTENDS Integers, Sequences, FiniteSets, TLC

VARIABLES
    units,          \* memory_units rows, in rowid order
    edges,          \* edges table: set of [sourceId, targetId, relation]
    vectors,        \* ids that have a row in memory_vectors / this.vectors
    recallCache,    \* memory-cache.ts recallCache (Map, insertion order)
    rate,           \* rate-limiter.ts state
    workerReady,    \* embedding-manager workerReady
    pendingEmbeddings, \* embedding-manager pendingEmbeddings (with what awaits each)
    nextEmbed,      \* number of embedding requests posted so far
    microtasks,     \* FIFO of promise continuations of dispatched requests
    inLineLoop,     \* readline is still emitting the lines of the current chunk
    nextRid,        \* number of request lines dispatched so far
    stdout,         \* response frames written, in order
    now,            \* Date.now(), in minutes
    process         \* the database handle and what the process did to end

vars == << units, edges, vectors, recallCache, rate, workerReady,
           pendingEmbeddings, nextEmbed, microtasks, inLineLoop, nextRid,
           stdout, now, process >>

NULL == 0

\* the string 'arch-graph-refresh': a value of superseded_by that is no row's id
ARCH_GRAPH_REFRESH == -1

\* ------------------------------------------------------------------ bounds
MaxRequests == 3     \* request lines read from stdin in one run
MaxTicks == 1        \* times the clock is advanced in one run
StartTime == 100000  \* Date.now() at start-up, in minutes
TickMinutes == 2     \* minutes that pass in one advance of the clock

\* ------------------------------------------------------------- constants
CACHE_TTL == 1                      \* 60_000 ms
CACHE_MAX == 50
DEFAULT_MAX_RESULTS == 10
MAX_RESULTS_CAP == 50
DUP_CANDIDATE_LIMIT == 200
MAX_STORES_PER_SESSION == 30
MAX_CALLS_PER_SESSION == 500
FREE_MAX_MEMORIES == 20
LIST_LIMIT == 20
RELATED_LIMIT == 2
DAY == 1440                         \* 86_400_000 ms
MIN_IMPORTANCE == 100               \* 0.1
MAX_ACCESS_BOOST == 20              \* 2.0, in tenths
DECAY_DAYS == 50                    \* 1 / DECAY_RATE (0.02 per day)
DECAY_THRESHOLD == 50               \* 0.05
MIN_CONTENT_LEN == 15
MAX_CONTENT_LEN == 500
QUICK_MIN_LEN == 5
INTENT_MAX_LEN == 300

\* ------------------------------------------------------------------- text
Range(s) == { s[i] : i \in 1..Len(s) }

Min(a, b) == IF a < b THEN a ELSE b
Max(a, b) == IF a > b THEN a ELSE b

\* String.prototype.toLowerCase on the words of the vocabulary
LowerCase(w) ==
    CASE w = "Always" -> "always"
      [] w = "Use" -> "use"
      [] w = "Never" -> "never"
      [] w = "React" -> "react"
      [] w = "Stored" -> "stored"
      [] w = "MCP" -> "mcp"
      [] w = "Quick" -> "quick"
      [] w = "CORRECTION" -> "correction"
      [] w = "DECISION" -> "decision"
      [] w = "BUG_FIX" -> "bug_fix"
      [] w = "CONVENTION" -> "convention"
      [] w = "INSIGHT" -> "insight"
      [] w = "Architecture" -> "architecture"
      [] w = "Recurring" -> "recurring"
      [] w = "Repeated" -> "repeated"
      [] w = "Consolidated" -> "consolidated"
      [] w = "Established" -> "established"
      [] w = "Key" -> "key"
      [] w = "Merged" -> "merged"
      [] w = "Originals" -> "originals"
      [] OTHER -> w

LowerText(text) == [ i \in 1..Len(text) |-> LowerCase(text[i]) ]

\* text.length: the words joined by single blanks
RECURSIVE TextLen(_)
TextLen(text) ==
    IF text = << >> THEN 0
    ELSE Len(Head(text)) + (IF Len(text) > 1 THEN 1 ELSE 0) + TextLen(Tail(text))

STOP_WORDS ==
    { "the", "a", "an", "is", "are", "was", "were", "to", "of", "in", "for",
      "on", "with", "at", "by", "from", "use", "always", "never", "should",
      "must", "not", "do", "be", "it", "this", "that", "and", "or", "but" }

\* MemoryStore.tokenize: lowercase, split, drop words of length <= 2 and stop
\* words (the vocabulary holds no punctuation, so the replace() is a no-op)
tokenize(text) ==
    SelectSeq(LowerText(text), LAMBDA w : Len(w) > 2 /\ w \notin STOP_WORDS)

\* the similarity test of findDuplicate: intersection / union >= 0.7
IsSimilar(newWords, existingWords) ==
    LET inter == Cardinality(newWords \cap existingWords)
        union == Cardinality(newWords \cup existingWords)
    IN  union > 0 /\ 10 * inter >= 7 * union

\* ------------------------------------------------------------ MemoryStore
get(ms, id) == IF id \in 1..Len(ms) THEN ms[id] ELSE NULL

Exists(ms, id) == id \in 1..Len(ms)

ActiveIds(ms) == { i \in 1..Len(ms) : ms[i].isActive }

activeCount(ms) == Cardinality(ActiveIds(ms))

totalCount(ms) == Len(ms)

\* SELECT * FROM memory_units WHERE type = ? AND is_active = 1 LIMIT 200:
\* the first rows, in rowid order, that qualify
FirstN(ms, ids, n) == { i \in ids : Cardinality({ j \in ids : j < i }) < n }

\* candidates read without the type condition
DupCandidatesAnyType(ms, type) == ActiveIds(ms)

DupCandidates(ms, type) ==
    LET ids == { i \in ActiveIds(ms) : ms[i].type = type }
    IN  IF Cardinality(ids) <= DUP_CANDIDATE_LIMIT THEN ids
        ELSE FirstN(ms, ids, DUP_CANDIDATE_LIMIT)

findDuplicate(ms, type, intent) ==
    LET newWords == Range(tokenize(intent))
        hits == { i \in DupCandidates(ms, type) :
                    IsSimilar(newWords, Range(tokenize(ms[i].intent))) }
    IN  IF newWords = {} \/ hits = {} THEN NULL
        ELSE CHOOSE i \in hits : \A j \in hits : i <= j

touch(ms, id, t) ==
    IF Exists(ms, id)
    THEN [ms EXCEPT ![id].accessCount = @ + 1, ![id].lastAccessed = t]
    ELSE ms

\* a deactivation that also wiped the text of the row
deactivateAndBlank(ms, id, supersededBy) ==
    IF Exists(ms, id)
    THEN [ms EXCEPT ![id].isActive = FALSE, ![id].supersededBy = supersededBy,
                    ![id].intent = << >>]
    ELSE ms

\* UPDATE memory_units SET is_active = 0, superseded_by = ? WHERE id = ?
deactivate(ms, id, supersededBy) ==
    IF Exists(ms, id)
    THEN [ms EXCEPT ![id].isActive = FALSE, ![id].supersededBy = supersededBy]
    ELSE ms

\* add(): the result is the store after the call and the memory returned
add(ms, memory, t) ==
    LET dup == findDuplicate(ms, memory.type, memory.intent)
        id == Len(ms) + 1
        full == [ id |-> id,
                  type |-> memory.type,
                  intent |-> memory.intent,
                  action |-> memory.action,
                  tags |-> memory.tags,
                  timestamp |-> t,
                  confidence |-> memory.confidence,
                  importance |-> memory.importance,
                  accessCount |-> 0,
                  lastAccessed |-> NULL,
                  supersededBy |-> NULL,
                  isActive |-> TRUE,
                  createdAt |-> t ]
    IN  IF dup # NULL
        THEN [ units |-> touch(ms, dup, t), memory |-> ms[dup], created |-> FALSE ]
        ELSE [ units |-> Append(ms, full), memory |-> full, created |-> TRUE ]

\* update(): `updates` is a record holding the provided fields.  intent, action
\* and timestamp fall back to the row when falsy (||), confidence and
\* importance when absent (??); tags when absent.  The UPDATE statement sets no
\* other column (accessCount is not among them) and has no is_active condition.
UpdatedField(row, updates, f) ==
    IF f \notin DOMAIN updates THEN row[f]
    ELSE IF f = "intent" \/ f = "action"
         THEN (IF updates[f] = << >> THEN row[f] ELSE updates[f])
    ELSE IF f = "timestamp"
         THEN (IF updates[f] = 0 THEN row[f] ELSE updates[f])
    ELSE updates[f]

UPDATE_COLUMNS == { "intent", "action", "tags", "confidence", "importance", "timestamp" }

update(ms, id, updates) ==
    IF Exists(ms, id)
    THEN [ms EXCEPT ![id] =
            [ f \in DOMAIN ms[id] |->
                IF f \in UPDATE_COLUMNS THEN UpdatedField(ms[id], updates, f)
                ELSE ms[id][f] ]]
    ELSE ms

addEdge(es, sourceId, targetId, relation) ==
    es \cup { [ sourceId |-> sourceId, targetId |-> targetId, relation |-> relation ] }

\* -------------------------------------------------------- aging (decay)
\* effectiveImportance(): base * 1/(1 + ageDays * 0.02) * accessBoost *
\* recencyBoost, clamped to [0.1, 1.0]; 1/(1 + age/DAY * 0.02) is
\* 50*DAY / (50*DAY + age)
effectiveImportance(baseImportance, timestamp, accessCount, lastAccessed, t) ==
    LET age == t - timestamp
        decayFactor == (1000 * DECAY_DAYS * DAY) \div (DECAY_DAYS * DAY + age)
        accessBoost == Min(MAX_ACCESS_BOOST, 10 + accessCount)
        recencyBoost ==
            IF lastAccessed = NULL THEN 10
            ELSE IF t - lastAccessed < DAY THEN 13
            ELSE IF t - lastAccessed < 7 * DAY THEN 11
            ELSE 10
        effective == (baseImportance * decayFactor * accessBoost * recencyBoost) \div 100000
    IN  Max(MIN_IMPORTANCE, Min(1000, effective))

Abs(x) == IF x < 0 THEN 0 - x ELSE x

\* runDecayMaintenance(): every active row whose effective importance differs
\* from the stored one by more than 0.05 is rewritten
runDecayMaintenance(ms, t) ==
    [ i \in 1..Len(ms) |->
        LET m == ms[i]
            effective == effectiveImportance(m.importance, m.timestamp,
                                             m.accessCount, m.lastAccessed, t)
        IN  IF m.isActive /\ Abs(m.importance - effective) > DECAY_THRESHOLD
            THEN update(ms, i, [ importance |-> effective ])[i]
            ELSE m ]

\* ------------------------------------------------------------ recall cache
CacheIndex(cache, key) ==
    IF \E i \in 1..Len(cache) : cache[i].key = key
    THEN CHOOSE i \in 1..Len(cache) : cache[i].key = key
    ELSE 0

RemoveAt(s, i) == SubSeq(s, 1, i - 1) \o SubSeq(s, i + 1, Len(s))

\* getCached(): the hit (or NULL) and the cache after the call, which drops an
\* expired entry
CacheExpired(cache, key, t) ==
    LET i == CacheIndex(cache, key) IN i # 0 /\ t - cache[i].time > CACHE_TTL

CacheHit(cache, key, t) ==
    CacheIndex(cache, key) # 0 /\ ~CacheExpired(cache, key, t)

getCached(cache, key, t) ==
    IF CacheExpired(cache, key, t) THEN RemoveAt(cache, CacheIndex(cache, key))
    ELSE cache

CachedResult(cache, key) == cache[CacheIndex(cache, key)].result

setCache(cache, key, result, t) ==
    LET evicted == IF Len(cache) >= CACHE_MAX THEN Tail(cache) ELSE cache
        i == CacheIndex(evicted, key)
        entry == [ key |-> key, result |-> result, time |-> t ]
    IN  IF i # 0 THEN [evicted EXCEPT ![i] = entry] ELSE Append(evicted, entry)

invalidateCache == << >>

\* ------------------------------------------------------------ rate limiter
\* checkRateLimit('store'): both counters advance before the limits are tested
checkRateLimitStore(r) ==
    LET total == r.totalCalls + 1
    IN  IF total > MAX_CALLS_PER_SESSION
        THEN [ state |-> [r EXCEPT !.totalCalls = total], allowed |-> FALSE ]
        ELSE [ state |-> [ totalCalls |-> total, storeCount |-> r.storeCount + 1 ],
               allowed |-> r.storeCount + 1 <= MAX_STORES_PER_SESSION ]

\* ---------------------------------------------------------------- inputs
\* contents a caller sends
T_CONST == << "Always", "use", "const", "never", "var" >>
T_VAR == << "Always", "use", "var", "never", "const" >>
T_STOP == << "use", "it" >>

Contents == { T_CONST, T_VAR, T_STOP }

StoreTypes == { "CORRECTION", "DECISION" }

Queries == { << "const" >>, << "use", "it" >> }

\* import bundles: the memories of an exported bundle; the second one carries
\* numbers outside the documented ranges
BundleA ==
    << [ type |-> "CORRECTION", intent |-> T_STOP, action |-> T_STOP,
         tags |-> << "correction" >>, confidence |-> 1000, importance |-> 950 ],
       [ type |-> "CORRECTION", intent |-> T_CONST, action |-> T_CONST,
         tags |-> << "correction" >>, confidence |-> 1000, importance |-> 950 ] >>

BundleB ==
    << [ type |-> "DECISION", intent |-> T_VAR, action |-> T_VAR,
         tags |-> << "decision" >>, confidence |-> 2000, importance |-> 0 ] >>

\* graph.totalFiles of the workspaces scanned
GraphFiles == { 12 }

\* the `version` and `memories` of the bundles a caller sends
Bundles == { << 1, BundleA >>, << 1, BundleB >>, << 2, BundleB >> }


\* ------------------------------------------------------------ FTS5 index
\* the porter stemmer on the vocabulary
Stem(w) ==
    CASE w = "functional" -> "function"
      [] w = "components" -> "compon"
      [] w = "apps" -> "app"
      [] w = "stored" -> "store"
      [] w = "always" -> "alwai"
      [] w = "use" -> "us"
      [] w = "correction" -> "correct"
      [] w = "decision" -> "decis"
      [] w = "convention" -> "convent"
      [] OTHER -> w

StemAll(text) == { Stem(w) : w \in Range(LowerText(text)) }

\* the indexed columns of a row (intent, action, tags), tokenized
FtsDoc(m) == StemAll(m.intent) \cup StemAll(m.action) \cup StemAll(m.tags)

\* searchFTS(): MATCH joined with is_active = 1; `anyTerm` is an OR query,
\* otherwise the terms are implicitly ANDed
searchFTS(ms, terms, anyTerm) ==
    { i \in ActiveIds(ms) :
        IF anyTerm THEN \E w \in StemAll(terms) : w \in FtsDoc(ms[i])
        ELSE \A w \in StemAll(terms) : w \in FtsDoc(ms[i]) }

\* a vector search that scored every active row, embedded or not
searchVectorUnindexed(ms, vecs) == ActiveIds(ms)

\* searchVector(): every vector is scored, then rows that are missing or
\* inactive are filtered out
searchVector(ms, vecs) == { i \in vecs : Exists(ms, i) /\ ms[i].isActive }

\* getRelated(id, 1, limit): active targets of the edges leaving id
getRelated(ms, es, id, limit) ==
    FirstN(ms, { e.targetId : e \in { x \in es : x.sourceId = id } } \cap ActiveIds(ms), limit)

\* getByType(type, limit): ORDER BY timestamp DESC; rows with the same
\* timestamp come in an order SQLite does not fix, so the first row other
\* than `self` is any row of the latest timestamp among those
RecentOthers(ms, type, self) ==
    LET others == { i \in ActiveIds(ms) : ms[i].type = type /\ i # self }
    IN  { i \in others : \A j \in others : ms[j].timestamp <= ms[i].timestamp }

\* ---------------------------------------------------------- expandQuery
SYNONYMS(w) ==
    CASE w = "auth" -> << "authentication", "login" >>
      [] w = "login" -> << "auth", "authentication" >>
      [] w = "db" -> << "database", "sql" >>
      [] w = "database" -> << "db", "sql" >>
      [] w = "api" -> << "endpoint", "route" >>
      [] w = "error" -> << "bug", "fix" >>
      [] w = "bug" -> << "error", "fix" >>
      [] w = "style" -> << "css", "design" >>
      [] w = "test" -> << "testing", "jest" >>
      [] w = "deploy" -> << "deployment", "ci" >>
      [] OTHER -> << >>

EXPANSION_CAP == 8

\* Set.add in insertion order
SetAdd(seq, w) == IF w \in Range(seq) THEN seq ELSE Append(seq, w)

RECURSIVE SetFrom(_, _)
SetFrom(acc, words) ==
    IF words = << >> THEN acc ELSE SetFrom(SetAdd(acc, Head(words)), Tail(words))

RECURSIVE AddSynonyms(_, _)
AddSynonyms(expanded, syns) ==
    IF syns = << >> \/ Len(expanded) >= EXPANSION_CAP THEN expanded
    ELSE AddSynonyms(SetAdd(expanded, Head(syns)), Tail(syns))

RECURSIVE ExpandWords(_, _)
ExpandWords(expanded, words) ==
    IF words = << >> \/ Len(expanded) >= EXPANSION_CAP THEN expanded
    ELSE ExpandWords(AddSynonyms(expanded, SYNONYMS(Head(words))), Tail(words))

\* the terms that expandQuery joins with " OR "
expandQuery(query) ==
    LET words == SelectSeq(LowerText(query), LAMBDA w : Len(w) > 2)
    IN  ExpandWords(SetFrom(<< >>, words), words)

\* ------------------------------------------------------------ quality gate
GENERIC_PHRASES ==
    { << "use", "best", "practices" >>, << "follow", "conventions" >>,
      << "handle", "errors" >> }

\* qualityCheck(): TRUE when the content is rejected.  The vocabulary holds
\* no all-caps text, character runs or URLs, so the length rules and the
\* blacklist are the rules that can fire.
qualityCheck(content) ==
    \/ content = << >>
    \/ TextLen(content) < MIN_CONTENT_LEN
    \/ TextLen(content) > MAX_CONTENT_LEN
    \/ LowerText(content) \in GENERIC_PHRASES

\* storeWithQuality(): nothing is stored when the gate rejects (the code
\* returns null: `accepted` is FALSE), otherwise the outcome of
\* MemoryStore.add (which dedups)
storeWithQuality(ms, memory, t) ==
    IF qualityCheck(memory.intent)
    THEN [ accepted |-> FALSE, units |-> ms ]
    ELSE [ accepted |-> TRUE ] @@ add(ms, memory, t)

\* the words that directly follow one of `markers` in the text
MarkedWords(text, markers) ==
    { LowerCase(text[i + 1]) : i \in { j \in 1..(Len(text) - 1) : LowerCase(text[j]) \in markers } }

Negates(a, b) ==
    MarkedWords(a, { "use" }) \cap MarkedWords(b, { "never", "avoid" }) # {}

\* findContradiction(): an active item of the same kind whose intent shares
\* at least half of its tokens with the content and negates it; NULL if none
findContradiction(ms, type, content) ==
    LET words == Range(tokenize(content))
        hits == { i \in ActiveIds(ms) :
                    /\ ms[i].type = type
                    /\ LET other == Range(tokenize(ms[i].intent))
                       IN  /\ words \cup other # {}
                           /\ 2 * Cardinality(words \cap other) >= Cardinality(words \cup other)
                    /\ Negates(content, ms[i].intent) \/ Negates(ms[i].intent, content) }
    IN  IF hits = {} THEN NULL ELSE CHOOSE i \in hits : \A j \in hits : i <= j

\* ------------------------------------------------------------ handlers' parts
\* quick_store classification: the first regular expression that matches
Classify(text) ==
    LET lower == Range(LowerText(text))
    IN  IF lower \cap { "dont", "never", "wrong", "instead", "not", "avoid", "stop", "incorrect" } # {}
        THEN "CORRECTION"
        ELSE IF lower \cap { "fix", "bug", "broke", "crash", "error", "patch", "regression" } # {}
        THEN "BUG_FIX"
        ELSE IF lower \cap { "always", "convention", "style", "format", "standard", "rule", "must" } # {}
        THEN "CONVENTION"
        ELSE IF lower \cap { "use", "chose", "decided", "pick", "select", "migrate" } # {}
        THEN "DECISION"
        ELSE "INSIGHT"

\* importance given by store_memory and quick_store
ImportanceOf(type) ==
    IF type = "CORRECTION" THEN 950 ELSE IF type = "DECISION" THEN 850 ELSE 700

\* canStoreMemory() on the FREE plan
canStoreMemory(currentCount) == currentCount < FREE_MAX_MEMORIES

\* content.slice(0, n), cutting at the last word that fits
RECURSIVE Slice(_, _)
Slice(text, n) ==
    IF TextLen(text) <= n THEN text ELSE Slice(SubSeq(text, 1, Len(text) - 1), n)

\* step 1 of recall: the expanded query first, the raw query when it found
\* nothing; an expansion without terms is a MATCH syntax error, swallowed
FtsStage(ms, query) ==
    LET expanded == expandQuery(query)
        differs == Len(expanded) # 1 \/ expanded # query
        first == IF differs /\ expanded # << >> THEN searchFTS(ms, expanded, TRUE) ELSE {}
    IN  IF first = {} THEN searchFTS(ms, query, FALSE) ELSE first

\* slice(0, n) of a scored list: the scores are not modelled, so a cut that
\* binds keeps any n entries
TopN(S, n) ==
    IF Cardinality(S) <= n THEN { S } ELSE { T \in SUBSET S : Cardinality(T) = n }

\* steps 3 and 3d of recall: merge, then follow the edges of the results
\* (every result is among the first five while at most five are found)
Enriched(ms, es, merged) ==
    merged \cup UNION { getRelated(ms, es, i, RELATED_LIMIT) : i \in merged }

RECURSIVE TouchAll(_, _, _)
TouchAll(ms, ids, t) ==
    IF ids = {} THEN ms
    ELSE LET i == CHOOSE x \in ids : TRUE
         IN  TouchAll(touch(ms, i, t), ids \ {i}, t)

\* importMemories(): rows whose (type, intent) key is already active, or came
\* earlier in the bundle, are skipped; the rest go through add() unvalidated
ImportKey(m) == << m.type, LowerText(m.intent) >>

\* the keys of the active rows, as importMemories() loads them once
ExistingKeys(ms) == { ImportKey(ms[i]) : i \in ActiveIds(ms) }

\* the loop of importMemories(): `st` holds the store, the keys seen so far and
\* the counters.  `imported` counts every add() that returned, whether or not
\* it inserted a row
\* an entry of a bundle on which the body of the loop throws: without an
\* intent m.intent.toLowerCase() throws, without a type the INSERT of add()
\* violates NOT NULL
ItemThrows(m) == "intent" \notin DOMAIN m \/ "type" \notin DOMAIN m

RECURSIVE importLoop(_, _, _)
importLoop(st, memories, t) ==
    IF memories = << >> THEN st
    ELSE LET m == Head(memories)
         IN  IF ItemThrows(m)
             THEN importLoop([st EXCEPT !.errors = @ + 1], Tail(memories), t)
             ELSE IF ImportKey(m) \in st.existingKeys
             THEN importLoop([st EXCEPT !.skipped = @ + 1], Tail(memories), t)
             ELSE importLoop([ units |-> add(st.units, m, t).units,
                               existingKeys |-> st.existingKeys \cup { ImportKey(m) },
                               imported |-> st.imported + 1,
                               skipped |-> st.skipped,
                               errors |-> st.errors ],
                             Tail(memories), t)

importMemories(ms, memories, existingKeys, t) ==
    importLoop([ units |-> ms, existingKeys |-> existingKeys,
                 imported |-> 0, skipped |-> 0, errors |-> 0 ], memories, t)

\* the `data` argument of import_memories: whether JSON.parse accepts it,
\* and of the parsed bundle its version and its memories (if it has any)
ImportData(parses, version, hasMemories, memories) ==
    [ parses |-> parses, version |-> version, hasMemories |-> hasMemories,
      memories |-> memories ]

\* a handler that did not look at the version of the bundle
handleImportAnyVersion(ms, data, t) ==
    LET r == importMemories(ms, data.memories, ExistingKeys(ms), t)
    IN  [ units |-> r.units, isError |-> FALSE, invalidated |-> TRUE,
          imported |-> r.imported, skipped |-> r.skipped, errors |-> r.errors ]

\* handleImportMemories(): a data string that does not parse, a version
\* other than 1 and a bundle without a memories array (the for-of throws) all
\* end in a result with isError before anything is written
handleImportMemories(ms, data, t) ==
    IF ~data.parses \/ data.version # 1 \/ ~data.hasMemories
    THEN [ units |-> ms, isError |-> TRUE, invalidated |-> FALSE,
           imported |-> 0, skipped |-> 0, errors |-> 0 ]
    ELSE LET r == importMemories(ms, data.memories, ExistingKeys(ms), t)
         IN  [ units |-> r.units, isError |-> FALSE, invalidated |-> TRUE,
               imported |-> r.imported, skipped |-> r.skipped, errors |-> r.errors ]

\* getActive(): SELECT ... WHERE is_active = 1 ORDER BY timestamp DESC; rows of
\* equal timestamp come in either order, so this is the set of possible results
RECURSIVE getActive(_, _)
getActive(ms, ids) ==
    IF ids = {} THEN { << >> }
    ELSE UNION { { << i >> \o rest : rest \in getActive(ms, ids \ {i}) } :
                 i \in { j \in ids : \A k \in ids : ms[j].timestamp >= ms[k].timestamp } }

\* a row as exportMemories() writes it, restricted to the fields import reads
ExportedMemory(m) ==
    [ type |-> m.type, intent |-> m.intent, action |-> m.action, tags |-> m.tags,
      confidence |-> m.confidence, importance |-> m.importance ]

\* exportMemories(): the `memories` of the bundles it can produce
exportMemories(ms) ==
    { [ k \in 1..Len(order) |-> ExportedMemory(ms[order[k]]) ] :
        order \in getActive(ms, ActiveIds(ms)) }

\* ------------------------------------------------------- event loop state
\* a response frame: what the text of the result tells the caller
Response(rid, tool, isError, items, memId, target) ==
    [ rid |-> rid, tool |-> tool, isError |-> isError, items |-> items,
      memId |-> memId, target |-> target, imported |-> 0, skipped |-> 0,
      errors |-> 0, error |-> NULL ]

\* JSON-RPC error codes the server answers with
PARSE_ERROR == -32700
METHOD_NOT_FOUND == -32601
INTERNAL_ERROR == -32603

\* a frame carrying a JSON-RPC error object instead of a result; `tool` names
\* the request that caused it ("" for a line that is no request)
ErrorResponse(rid, tool, code) ==
    [ Response(rid, tool, FALSE, {}, NULL, NULL) EXCEPT !.error = code ]

\* a listener that reported what it caught as an internal error
LineCatchInternal(tool) == ErrorResponse(NULL, tool, INTERNAL_ERROR)

\* the catch block of the line listener: whatever was thrown by JSON.parse or
\* by the awaited handler is reported as a parse error with a null id
LineCatch(tool) == ErrorResponse(NULL, tool, PARSE_ERROR)

\* a continuation waiting in the microtask queue: `hops` promise resolutions
\* remain before `stage` runs.  stage "write" writes the response to stdout;
\* stage "finish" is the rest of handleRecallMemory after the await of its
\* touches.  `key` is the cache key of a recall.
Task(hops, stage, resp, key, args) ==
    [ hops |-> hops, stage |-> stage, resp |-> resp, key |-> key, args |-> args ]

\* the arguments of the request a continuation belongs to
Args(type, text) == [ type |-> type, text |-> text ]

NoArgs == Args("", << >>)

\* promise resolutions between a handler's return and the write in the line
\* listener: one await for a handler returned directly, two when
\* handleMCPRequest awaits an async handler itself
HOPS_DIRECT == 1
HOPS_AWAITED == 2

NoKey == << >>

\* a long session is joined after this many requests have been answered
EarlierCalls == 500

\* a session is followed for its first MaxRequests requests, or for the
\* MaxRequests requests that come after EarlierCalls earlier ones
WithinBound(rid) ==
    rid < MaxRequests \/ (EarlierCalls <= rid /\ rid < EarlierCalls + MaxRequests)

\* a line may be dispatched when the previous macrotask has drained its
\* microtasks, or while readline is still emitting the lines of one chunk
CanDispatch == WithinBound(nextRid) /\ (microtasks = << >> \/ inLineLoop)

\* timers and worker messages are macrotasks: they run between chunks, when
\* no microtask is queued
CanRunMacrotask == microtasks = << >>

\* ---------------------------------------------------------------- process
\* the process after a successful start: the database handle is open, nothing
\* has been done to it, no exit code is set
Started ==
    [ database |-> "open", log |-> << >>, exited |-> FALSE, exitCode |-> NULL,
      event |-> "" ]

\* a close() that did not checkpoint
closeWithoutCheckpoint(p) == [p EXCEPT !.database = "closed", !.log = @ \o << "close" >>]

\* CognitiveDatabase.close(): checkpoint(), then db.close()
close(p) ==
    [p EXCEPT !.database = "closed", !.log = @ \o << "checkpoint", "close" >>]

\* process.exit(code)
exit(p, code) == [p EXCEPT !.exited = TRUE, !.exitCode = code, !.log = @ \o << "exit" >>]

\* the process runs, and the step is none of its shutdown handlers
Alive == ~process.exited /\ UNCHANGED process

SHUTDOWN_EVENTS == { "close", "SIGTERM", "SIGINT" }

\* rl.on('close'), process.on('SIGTERM'), process.on('SIGINT')
Shutdown(event) ==
    /\ CanRunMacrotask
    /\ ~process.exited
    /\ process' = [ exit(IF process.database # "none" THEN close(process) ELSE process, 0)
                      EXCEPT !.event = event ]
    /\ UNCHANGED << units, edges, vectors, recallCache, rate, workerReady,
                    pendingEmbeddings, nextEmbed, microtasks, inLineLoop, nextRid,
                    stdout, now >>

Init ==
    /\ units = << >>
    /\ edges = {}
    /\ vectors = {}
    /\ recallCache = << >>
    /\ rate = [ totalCalls |-> 0, storeCount |-> 0 ]
    /\ workerReady = FALSE
    /\ pendingEmbeddings = {}
    /\ nextEmbed = 0
    /\ microtasks = << >>
    /\ inLineLoop = FALSE
    /\ nextRid = 0
    /\ stdout = << >>
    /\ now = StartTime
    /\ process = Started

\* the bookkeeping every dispatch shares
Dispatch(task) ==
    /\ nextRid' = nextRid + 1
    /\ inLineLoop' = TRUE
    /\ microtasks' = Append(microtasks, task)

\* --------------------------------------------------------- store_memory
StoreMemory(type, content) ==
    LET rid == nextRid + 1
        rateCheck == checkRateLimitStore(rate)
        stored == storeWithQuality(units,
                     [ type |-> type, intent |-> Slice(content, INTENT_MAX_LEN),
                       action |-> << "Stored", "via", "MCP" >> \o Slice(content, 200),
                       tags |-> << LowerCase(type) >>,
                       confidence |-> 1000, importance |-> ImportanceOf(type) ], now)
        failed == Response(rid, "store_memory", TRUE, {}, NULL, NULL)
    IN  /\ CanDispatch
        /\ Alive
        /\ rate' = rateCheck.state
        /\ IF ~rateCheck.allowed \/ ~canStoreMemory(activeCount(units)) \/ ~stored.accepted
           THEN /\ Dispatch(Task(HOPS_AWAITED, "write", failed, NoKey, Args(type, content)))
                /\ UNCHANGED << units, edges, recallCache, pendingEmbeddings, nextEmbed >>
           ELSE LET memory == stored.memory
                    contradiction == findContradiction(stored.units, type, content)
                    resolved == IF contradiction # NULL
                                THEN deactivate(stored.units, contradiction, memory.id)
                                ELSE stored.units
                    superseded == IF contradiction # NULL
                                  THEN addEdge(edges, contradiction, memory.id, "superseded_by")
                                  ELSE edges
                    recent == RecentOthers(resolved, type, memory.id)
                IN  /\ units' = resolved
                    /\ IF recent = {} THEN edges' = superseded
                       ELSE \E r \in recent :
                              edges' = addEdge(superseded, memory.id, r, "related_to")
                    /\ IF workerReady
                       THEN /\ nextEmbed' = nextEmbed + 1
                            /\ pendingEmbeddings' = pendingEmbeddings \cup
                                 { [ eid |-> nextEmbed + 1, kind |-> "store", rid |-> rid,
                                     memId |-> memory.id, key |-> NoKey, items |-> {} ] }
                       ELSE UNCHANGED << pendingEmbeddings, nextEmbed >>
                    /\ recallCache' = invalidateCache
                    /\ Dispatch(Task(HOPS_AWAITED, "write",
                                     Response(rid, "store_memory", FALSE, {}, memory.id,
                                              contradiction), NoKey,
                                     Args(type, content)))
        /\ UNCHANGED << vectors, workerReady, stdout, now >>

\* ----------------------------------------------------------- quick_store
\* a `memory` argument that is a JSON number: it has no trim()
NOT_A_STRING == << "42" >>

QuickInputs == Contents \cup { NOT_A_STRING }

QuickStore(text) ==
    LET rid == nextRid + 1
        rateCheck == checkRateLimitStore(rate)
        threw == rateCheck.allowed /\ text = NOT_A_STRING
        type == Classify(text)
        stored == storeWithQuality(units,
                     [ type |-> type, intent |-> Slice(text, INTENT_MAX_LEN),
                       action |-> << "Quick", "stored" >> \o Slice(text, 200),
                       tags |-> << LowerCase(type) >>,
                       confidence |-> 1000, importance |-> ImportanceOf(type) ], now)
        rejected == ~rateCheck.allowed \/ TextLen(text) < QUICK_MIN_LEN \/ ~stored.accepted
    IN  /\ CanDispatch
        /\ Alive
        /\ rate' = rateCheck.state
        /\ units' = IF threw \/ rejected THEN units ELSE stored.units
        /\ Dispatch(Task(HOPS_DIRECT, "write",
                         IF threw
                         THEN LineCatch("quick_store")
                         ELSE Response(rid, "quick_store", rejected, {},
                                       IF rejected THEN NULL ELSE stored.memory.id, NULL),
                         NoKey, Args(type, text)))
        /\ UNCHANGED << edges, vectors, recallCache, workerReady, pendingEmbeddings,
                        nextEmbed, stdout, now >>

\* --------------------------------------------------------- recall_memory
RecallKey(query, maxResults) == << query, maxResults >>

\* steps 3 to 4 of handleRecallMemory, entered with the FTS rows read before
\* the await of the embedder and the vector rows read after it: rank, enrich,
\* cut, touch.  With results the handler awaits its touches ("finish" runs
\* two resolutions later); without, it caches and returns at once.
RecallRanked(rid, key, ranked, cache, queue) ==
    IF ranked # {}
    THEN /\ units' = TouchAll(units, ranked, now)
         /\ recallCache' = cache
         /\ microtasks' = Append(queue,
                Task(HOPS_AWAITED, "finish",
                     Response(rid, "recall_memory", FALSE, ranked, NULL, NULL), key,
                     Args("", key[1])))
    ELSE /\ units' = units
         /\ recallCache' = setCache(cache, key, {}, now)
         /\ microtasks' = Append(queue,
                Task(HOPS_AWAITED, "write",
                     Response(rid, "recall_memory", FALSE, {}, NULL, NULL), key,
                     Args("", key[1])))

RecallMemory(query) ==
    LET rid == nextRid + 1
        maxResults == Min(DEFAULT_MAX_RESULTS, MAX_RESULTS_CAP)
        key == RecallKey(query, maxResults)
        cache == getCached(recallCache, key, now)
        ftsResults == FtsStage(units, query)
    IN  /\ CanDispatch
        /\ Alive
        /\ nextRid' = rid
        /\ inLineLoop' = TRUE
        /\ IF CacheHit(recallCache, key, now)
           THEN /\ microtasks' = Append(microtasks,
                       Task(HOPS_AWAITED, "write",
                            Response(rid, "recall_memory", FALSE,
                                     CachedResult(recallCache, key), NULL, NULL), key,
                     Args("", key[1])))
                /\ UNCHANGED << units, recallCache, pendingEmbeddings, nextEmbed >>
           ELSE IF workerReady
           THEN /\ nextEmbed' = nextEmbed + 1
                /\ pendingEmbeddings' = pendingEmbeddings \cup
                     { [ eid |-> nextEmbed + 1, kind |-> "recall", rid |-> rid,
                         memId |-> NULL, key |-> key, items |-> ftsResults ] }
                /\ recallCache' = cache
                /\ UNCHANGED << units, microtasks >>
           ELSE /\ \E ranked \in TopN(Enriched(units, edges, ftsResults), maxResults) :
                      RecallRanked(rid, key, ranked, cache, microtasks)
                /\ UNCHANGED << pendingEmbeddings, nextEmbed >>
        /\ UNCHANGED << edges, vectors, rate, workerReady, stdout, now >>

\* -------------------------------------------------------- update_memory
UpdateMemory(memoryId, newContent) ==
    LET rid == nextRid + 1
        existing == get(units, memoryId)
    IN  /\ CanDispatch
        /\ Alive
        /\ IF ~Exists(units, memoryId)
           THEN /\ Dispatch(Task(HOPS_DIRECT, "write",
                        Response(rid, "update_memory", TRUE, {}, NULL, memoryId), NoKey,
                            Args("", newContent)))
                /\ UNCHANGED << units, recallCache >>
           ELSE LET added == add(units, [ type |-> existing.type, intent |-> newContent,
                                          action |-> newContent, tags |-> existing.tags,
                                          confidence |-> existing.confidence,
                                          importance |-> existing.importance ], now)
                IN  /\ units' = deactivate(added.units, memoryId, added.memory.id)
                    /\ recallCache' = invalidateCache
                    /\ Dispatch(Task(HOPS_DIRECT, "write",
                            Response(rid, "update_memory", FALSE, {}, added.memory.id,
                                     memoryId), NoKey,
                            Args("", newContent)))
        /\ UNCHANGED << edges, vectors, rate, workerReady, pendingEmbeddings, nextEmbed,
                        stdout, now >>

\* -------------------------------------------------------- delete_memory
DeleteMemory(memoryId) ==
    LET rid == nextRid + 1
        existing == get(units, memoryId)
    IN  /\ CanDispatch
        /\ Alive
        /\ IF ~Exists(units, memoryId) \/ ~existing.isActive
           THEN /\ Dispatch(Task(HOPS_DIRECT, "write",
                        Response(rid, "delete_memory", TRUE, {}, NULL, memoryId), NoKey, NoArgs))
                /\ UNCHANGED << units, recallCache >>
           ELSE /\ units' = deactivate(units, memoryId, NULL)
                /\ recallCache' = invalidateCache
                /\ Dispatch(Task(HOPS_DIRECT, "write",
                        Response(rid, "delete_memory", FALSE, {}, NULL, memoryId), NoKey, NoArgs))
        /\ UNCHANGED << edges, vectors, rate, workerReady, pendingEmbeddings, nextEmbed,
                        stdout, now >>

\* ---------------------------------------------------------- list_memories
\* getByType(type, limit): the possible results, the latest `limit` active
\* rows of the type (rows of equal timestamp in either order)
getByType(ms, type, limit) ==
    LET rows == { i \in ActiveIds(ms) : ms[i].type = type }
    IN  { T \in SUBSET rows :
            /\ Cardinality(T) = Min(limit, Cardinality(rows))
            /\ \A i \in T : \A j \in rows \ T : ms[j].timestamp <= ms[i].timestamp }

ListMemories ==
    /\ CanDispatch
    /\ Alive
    /\ \E cor \in getByType(units, "CORRECTION", LIST_LIMIT),
          dec \in getByType(units, "DECISION", LIST_LIMIT),
          con \in getByType(units, "CONVENTION", LIST_LIMIT),
          bug \in getByType(units, "BUG_FIX", LIST_LIMIT),
          ins \in getByType(units, "INSIGHT", LIST_LIMIT) :
          Dispatch(Task(HOPS_DIRECT, "write",
              Response(nextRid + 1, "list_memories", FALSE,
                       cor \cup dec \cup con \cup bug \cup ins, NULL, NULL), NoKey, NoArgs))
    /\ UNCHANGED << units, edges, vectors, recallCache, rate, workerReady,
                    pendingEmbeddings, nextEmbed, stdout, now >>

\* -------------------------------------------------------- import_memories
ImportMemories(version, memories) ==
    LET rid == nextRid + 1
        existingKeys == ExistingKeys(units)
    IN  /\ CanDispatch
        /\ Alive
        /\ IF version # 1
           THEN /\ Dispatch(Task(HOPS_DIRECT, "write",
                        Response(rid, "import_memories", TRUE, {}, NULL, NULL), NoKey, NoArgs))
                /\ UNCHANGED << units, recallCache >>
           ELSE LET result == importMemories(units, memories, existingKeys, now)
                IN  /\ units' = result.units
                    /\ recallCache' = invalidateCache
                    /\ Dispatch(Task(HOPS_DIRECT, "write",
                            [ Response(rid, "import_memories", FALSE, {}, NULL, NULL)
                                EXCEPT !.imported = result.imported,
                                       !.skipped = result.skipped ],
                            NoKey, NoArgs))
        /\ UNCHANGED << edges, vectors, rate, workerReady, pendingEmbeddings, nextEmbed,
                        stdout, now >>

\* a bundle holding an entry without intent, an entry without type and a
\* well-formed entry
BundleMixed ==
    << [ type |-> "DECISION", action |-> T_VAR ],
       [ intent |-> T_VAR, action |-> T_VAR ],
       [ type |-> "DECISION", intent |-> T_VAR, action |-> T_VAR,
         tags |-> << "decision" >>, confidence |-> 800, importance |-> 600 ] >>

\* data strings a caller sends: not JSON, a version 2 bundle, a version 1
\* object without memories, and version 1 bundles
ImportInputs ==
    { ImportData(FALSE, NULL, FALSE, << >>),
      ImportData(TRUE, 2, TRUE, BundleA),
      ImportData(TRUE, 1, FALSE, << >>),
      ImportData(TRUE, 1, TRUE, << >>),
      ImportData(TRUE, 1, TRUE, BundleMixed),
      ImportData(TRUE, 1, TRUE, BundleA) }

\* import_memories called with a raw data string
ImportRaw(data) ==
    LET rid == nextRid + 1
        h == handleImportMemories(units, data, now)
    IN  /\ CanDispatch
        /\ Alive
        /\ units' = h.units
        /\ recallCache' = IF h.invalidated THEN invalidateCache ELSE recallCache
        /\ Dispatch(Task(HOPS_DIRECT, "write",
                [ Response(rid, "import_memories", h.isError, {}, NULL, NULL)
                    EXCEPT !.imported = h.imported, !.skipped = h.skipped,
                           !.errors = h.errors ],
                NoKey, NoArgs))
        /\ UNCHANGED << edges, vectors, rate, workerReady, pendingEmbeddings, nextEmbed,
                        stdout, now >>

\* ---------------------------------------------------------- scan_project
\* the "Architecture: N files, ..." memory that storeArchitectureGraph always
\* adds for a graph with files
T_ARCH == << "Architecture", "files", "entry", "points", "leaf", "nodes" >>

ARCH_TAGS == << "architecture-graph", "structure" >>

\* storeArchitectureGraph(): the active rows tagged 'architecture-graph' are
\* deactivated with the refresh marker as superseded_by, then the graph's
\* memories are added (a graph without layers, circular dependencies or API
\* endpoints yields the structure memory alone)
storeArchitectureGraph(ms, totalFiles, t) ==
    IF totalFiles = 0 THEN ms
    ELSE LET existing == { i \in ActiveIds(ms) : "architecture-graph" \in Range(ms[i].tags) }
             removed == [ i \in 1..Len(ms) |->
                            IF i \in existing
                            THEN deactivate(ms, i, ARCH_GRAPH_REFRESH)[i]
                            ELSE ms[i] ]
         IN  add(removed, [ type |-> "INSIGHT", intent |-> T_ARCH, action |-> T_ARCH,
                            tags |-> ARCH_TAGS, confidence |-> 850, importance |-> 700 ],
                 t).units

\* handleScanProject(): the rows of ProjectScanner.scan() and of the export map
\* are left out (a workspace whose stack is already scanned and exports nothing)
ScanProject(totalFiles) ==
    /\ CanDispatch
    /\ Alive
    /\ units' = storeArchitectureGraph(units, totalFiles, now)
    /\ recallCache' = invalidateCache
    /\ Dispatch(Task(HOPS_AWAITED, "write",
            Response(nextRid + 1, "scan_project", FALSE, {}, NULL, NULL), NoKey, NoArgs))
    /\ UNCHANGED << edges, vectors, rate, workerReady, pendingEmbeddings, nextEmbed,
                    stdout, now >>

\* ------------------------------------------------- the rest of the protocol
UnknownTools == { "remember" }
UnknownMethods == { "ping" }

\* tools/call naming a tool the dispatcher does not know
UnknownTool(toolName) ==
    /\ CanDispatch
    /\ Alive
    /\ Dispatch(Task(HOPS_DIRECT, "write",
            Response(nextRid + 1, toolName, TRUE, {}, NULL, NULL), NoKey, NoArgs))
    /\ UNCHANGED << units, edges, vectors, recallCache, rate, workerReady,
                    pendingEmbeddings, nextEmbed, stdout, now >>

\* a request whose method falls to the default case of the dispatcher
UnknownMethod(method) ==
    /\ CanDispatch
    /\ Alive
    /\ Dispatch(Task(HOPS_DIRECT, "write",
            ErrorResponse(nextRid + 1, method, METHOD_NOT_FOUND), NoKey, NoArgs))
    /\ UNCHANGED << units, edges, vectors, recallCache, rate, workerReady,
                    pendingEmbeddings, nextEmbed, stdout, now >>

\* at most this many lines of a session are not JSON
MaxBadLines == 1

BadLines == { i \in 1..Len(stdout) : stdout[i].tool = "" }

\* lines that are not JSON, as sequences of characters: the empty line, a
\* line of spaces and a truncated object
InvalidLines == { << >>, << " ", " " >>, << "{", "i", "d" >> }

WHITESPACE == { " ", "\t", "\r" }

\* !line.trim()
IsBlank(line) == \A i \in 1..Len(line) : line[i] \in WHITESPACE

\* what the listener writes before it returns when the line is not JSON: it
\* returns at once on a blank line, JSON.parse throws on any other
OnInvalidLine(line) == IF IsBlank(line) THEN << >> ELSE << LineCatch("") >>

\* a line that is not JSON arrives
InvalidJson(line) ==
    /\ microtasks = << >> \/ inLineLoop
    /\ Alive
    /\ Cardinality(BadLines) < MaxBadLines
    /\ stdout' = stdout \o OnInvalidLine(line)
    /\ inLineLoop' = TRUE
    /\ UNCHANGED << units, edges, vectors, recallCache, rate, workerReady,
                    pendingEmbeddings, nextEmbed, microtasks, nextRid, now >>

\* ------------------------------------------------------------- event loop
\* one promise resolution: the continuation at the head of the queue runs,
\* or moves one resolution closer to running
RunMicrotask ==
    /\ microtasks # << >>
    /\ Alive
    /\ inLineLoop' = FALSE
    /\ LET task == Head(microtasks)
           rest == Tail(microtasks)
       IN  IF task.hops > 1
           THEN /\ microtasks' = Append(rest, [task EXCEPT !.hops = @ - 1])
                /\ UNCHANGED << units, recallCache, stdout >>
           ELSE IF task.stage = "finish"
           THEN /\ units' = runDecayMaintenance(units, now)
                /\ recallCache' = setCache(recallCache, task.key, task.resp.items, now)
                /\ microtasks' = Append(rest, Task(HOPS_AWAITED, "write", task.resp, task.key,
                                                   task.args))
                /\ UNCHANGED stdout
           ELSE /\ stdout' = Append(stdout, task.resp)
                /\ microtasks' = rest
                /\ UNCHANGED << units, recallCache >>
    /\ UNCHANGED << edges, vectors, rate, workerReady, pendingEmbeddings, nextEmbed,
                    nextRid, now >>

\* the worker reports that the model is loaded
WorkerReady ==
    /\ CanRunMacrotask
    /\ Alive
    /\ ~workerReady
    /\ workerReady' = TRUE
    /\ inLineLoop' = FALSE
    /\ UNCHANGED << units, edges, vectors, recallCache, rate, pendingEmbeddings,
                    nextEmbed, microtasks, nextRid, stdout, now >>

\* a 'result' message: the pending promise resolves; a store writes the
\* vector, a recall resumes after its await with the FTS rows it read before
EmbedResult(e) ==
    /\ CanRunMacrotask
    /\ Alive
    /\ e \in pendingEmbeddings
    /\ pendingEmbeddings' = pendingEmbeddings \ { e }
    /\ inLineLoop' = FALSE
    /\ IF e.kind = "store"
       THEN /\ vectors' = vectors \cup { e.memId }
            /\ UNCHANGED << units, recallCache, microtasks >>
       ELSE /\ \E ranked \in TopN(Enriched(units, edges,
                                           e.items \cup searchVector(units, vectors)),
                                  e.key[2]) :
                  RecallRanked(e.rid, e.key, ranked, recallCache, microtasks)
            /\ UNCHANGED vectors
    /\ UNCHANGED << edges, rate, workerReady, nextEmbed, nextRid, stdout, now >>

\* a rejection that leaves the entry in the map
EmbedRejectedKept(e) ==
    /\ CanRunMacrotask
    /\ Alive
    /\ e \in pendingEmbeddings
    /\ inLineLoop' = FALSE
    /\ microtasks' =
          IF e.kind = "recall"
          THEN Append(microtasks, Task(HOPS_AWAITED, "write",
                   Response(e.rid, "recall_memory", TRUE, {}, NULL, NULL), e.key,
                   Args("", e.key[1])))
          ELSE microtasks
    /\ UNCHANGED << units, edges, vectors, recallCache, rate, workerReady, nextEmbed,
                    pendingEmbeddings, nextRid, stdout, now >>

\* the pending promise rejects: a store ignores it, a recall lands in its
\* catch block and answers with isError
EmbedRejected(e) ==
    /\ CanRunMacrotask
    /\ Alive
    /\ e \in pendingEmbeddings
    /\ pendingEmbeddings' = pendingEmbeddings \ { e }
    /\ inLineLoop' = FALSE
    /\ microtasks' =
          IF e.kind = "recall"
          THEN Append(microtasks, Task(HOPS_AWAITED, "write",
                   Response(e.rid, "recall_memory", TRUE, {}, NULL, NULL), e.key,
                   Args("", e.key[1])))
          ELSE microtasks
    /\ UNCHANGED << units, edges, vectors, recallCache, rate, workerReady, nextEmbed,
                    nextRid, stdout, now >>

\* an 'error' message of the worker for this request
EmbedError(e) == EmbedRejected(e)

\* the EMBEDDING_TIMEOUT timer of this request fires
EmbedTimeout(e) == EmbedRejected(e)

\* time passes
Tick ==
    /\ CanRunMacrotask
    /\ Alive
    /\ now < StartTime + MaxTicks * TickMinutes
    /\ now' = now + TickMinutes
    /\ inLineLoop' = FALSE
    /\ UNCHANGED << units, edges, vectors, recallCache, rate, workerReady,
                    pendingEmbeddings, nextEmbed, microtasks, nextRid, stdout >>

Next ==
    \/ \E type \in StoreTypes, content \in Contents : StoreMemory(type, content)
    \/ \E text \in Contents : QuickStore(text)
    \/ \E query \in Queries : RecallMemory(query)
    \/ \E memoryId \in 1..(Len(units) + 1), content \in Contents : UpdateMemory(memoryId, content)
    \/ \E memoryId \in 1..(Len(units) + 1) : DeleteMemory(memoryId)
    \/ ListMemories
    \/ \E bundle \in Bundles : ImportMemories(bundle[1], bundle[2])
    \/ \E totalFiles \in GraphFiles : ScanProject(totalFiles)
    \/ RunMicrotask
    \/ WorkerReady
    \/ \E e \in pendingEmbeddings : EmbedResult(e)
    \/ \E e \in pendingEmbeddings : EmbedError(e)
    \/ \E e \in pendingEmbeddings : EmbedTimeout(e)

\* one session whose events all fall within the same minute
Spec == Init /\ [][Next]_vars

\* a session during which the clock advances
NextTimed == Next \/ Tick

SpecTimed == Init /\ [][NextTimed]_vars

\* ------------------------------- a session of well-formed and broken lines
\* requests that fail next to requests that succeed, on a server whose
\* storage initialized
NextProtocol ==
    \/ \E type \in StoreTypes, content \in Contents : StoreMemory(type, content)
    \/ \E text \in QuickInputs : QuickStore(text)
    \/ \E memoryId \in 1..(Len(units) + 1) : DeleteMemory(memoryId)
    \/ \E toolName \in UnknownTools : UnknownTool(toolName)
    \/ \E method \in UnknownMethods : UnknownMethod(method)
    \/ \E line \in InvalidLines : InvalidJson(line)
    \/ RunMicrotask

SpecProtocol == Init /\ [][NextProtocol]_vars

\* ------------------------------------------------ a session that is ended
NextShutdown ==
    \/ \E type \in StoreTypes, content \in Contents : StoreMemory(type, content)
    \/ \E query \in Queries : RecallMemory(query)
    \/ \E memoryId \in 1..(Len(units) + 1) : DeleteMemory(memoryId)
    \/ RunMicrotask
    \/ WorkerReady
    \/ \E e \in pendingEmbeddings : EmbedResult(e)
    \/ \E event \in SHUTDOWN_EVENTS : Shutdown(event)

SpecShutdown == Init /\ [][NextShutdown]_vars

\* ------------------------------------------- a session of imports and stores
NextImport ==
    \/ \E data \in ImportInputs : ImportRaw(data)
    \/ \E type \in StoreTypes, content \in Contents : StoreMemory(type, content)
    \/ \E memoryId \in 1..(Len(units) + 1) : DeleteMemory(memoryId)
    \/ RunMicrotask

SpecImport == Init /\ [][NextImport]_vars

\* ------------------------------------------------ late in a long session
\* the session so far: EarlierCalls list_memories calls on an empty store,
\* each answered; none of them went through the rate limiter
InitLate ==
    /\ units = << >>
    /\ edges = {}
    /\ vectors = {}
    /\ recallCache = << >>
    /\ rate = [ totalCalls |-> 0, storeCount |-> 0 ]
    /\ workerReady = FALSE
    /\ pendingEmbeddings = {}
    /\ nextEmbed = 0
    /\ microtasks = << >>
    /\ inLineLoop = FALSE
    /\ nextRid = EarlierCalls
    /\ stdout = [ k \in 1..EarlierCalls |->
                    Response(k, "list_memories", FALSE, {}, NULL, NULL) ]
    /\ now = StartTime
    /\ process = Started

NextLate ==
    \/ \E type \in StoreTypes, content \in Contents : StoreMemory(type, content)
    \/ \E query \in Queries : RecallMemory(query)
    \/ ListMemories
    \/ RunMicrotask

SpecLate == InitLate /\ [][NextLate]_vars

\* ------------------------------------------ a session whose storage failed
\* the tools a client calls on a server in degraded mode
DegradedTools == { "health_check", "store_memory", "recall_memory", "get_stats" }

\* the fallback handler installed when initialization throws: whatever the
\* request, it answers with a JSON-RPC error object holding the init failure
DegradedCall(toolName) ==
    /\ CanDispatch
    /\ Alive
    /\ Dispatch(Task(HOPS_DIRECT, "write",
            ErrorResponse(nextRid + 1, toolName, INTERNAL_ERROR), NoKey, NoArgs))
    /\ UNCHANGED << units, edges, vectors, recallCache, rate, workerReady,
                    pendingEmbeddings, nextEmbed, stdout, now >>

NextDegraded ==
    \/ \E toolName \in DegradedTools : DegradedCall(toolName)
    \/ \E line \in InvalidLines : InvalidJson(line)
    \/ RunMicrotask

SpecDegraded == Init /\ [][NextDegraded]_vars

\* ------------------------------------- a session on a database already filled
\* the database file outlives the process: a session may open on the rows that
\* earlier sessions stored.  This many DECISION rows at most are found there.
StoredRows == 201

DIGITS == << "0", "1", "2", "3", "4", "5", "6", "7", "8", "9" >>

\* the word that tells the k-th stored row from the others
RowWord(k) ==
    "module" \o DIGITS[((k \div 100) % 10) + 1] \o DIGITS[((k \div 10) % 10) + 1]
             \o DIGITS[(k % 10) + 1]

\* the k-th row, as add() wrote it in an earlier session
StoredRow(k) ==
    [ id |-> k, type |-> "DECISION", intent |-> << RowWord(k) >>,
      action |-> << "Stored", RowWord(k) >>, tags |-> << "decision" >>,
      timestamp |-> StartTime - DAY, confidence |-> 1000, importance |-> 850,
      accessCount |-> 0, lastAccessed |-> NULL, supersededBy |-> NULL,
      isActive |-> TRUE, createdAt |-> StartTime - DAY ]

StoredUnits(n) == [ k \in 1..n |-> StoredRow(k) ]

\* the text of row k with a stop word put in front of it
NearText(k) == << "Always", RowWord(k) >>

NearBundle(k) ==
    << [ type |-> "DECISION", intent |-> NearText(k), action |-> NearText(k),
         tags |-> << "decision" >>, confidence |-> 800, importance |-> 600 ] >>

NearRows == { 1, StoredRows }

InitFilled ==
    /\ units \in { StoredUnits(StoredRows - 1), StoredUnits(StoredRows) }
    /\ edges = {}
    /\ vectors = {}
    /\ recallCache = << >>
    /\ rate = [ totalCalls |-> 0, storeCount |-> 0 ]
    /\ workerReady = FALSE
    /\ pendingEmbeddings = {}
    /\ nextEmbed = 0
    /\ microtasks = << >>
    /\ inLineLoop = FALSE
    /\ nextRid = 0
    /\ stdout = << >>
    /\ now = StartTime
    /\ process = Started

NextFilled ==
    \/ \E k \in NearRows : ImportMemories(1, NearBundle(k))
    \/ \E memoryId \in NearRows, k \in NearRows : UpdateMemory(memoryId, NearText(k))
    \/ \E memoryId \in NearRows : DeleteMemory(memoryId)
    \/ RunMicrotask

SpecFilled == InitFilled /\ [][NextFilled]_vars

\* ================================================================ properties
Responded(rid) == \E i \in 1..Len(stdout) : stdout[i].rid = rid

\* the continuations created by the step: those of a request dispatched or of
\* a handler resumed by the embedder (a continuation that merely moves on in
\* the queue keeps its response)
Created ==
    { microtasks'[i] : i \in { j \in 1..Len(microtasks') :
          \A k \in 1..Len(microtasks) : microtasks[k].resp # microtasks'[j].resp } }

\* C1: for any two requests A and B received in that order, A's response has
\* been written to standard output before B is dispatched to the handler
\* (so every request dispatched before the latest one has its response
\* written).
C1_ResponseBeforeNextDispatch ==
    \A b \in 1..nextRid : \A a \in 1..(b - 1) : Responded(a)

\* the active items whose intent holds every word of the query
KeywordMatches(ms, query) ==
    { i \in ActiveIds(ms) : Range(LowerText(query)) \subseteq Range(LowerText(ms[i].intent)) }

CreatedByStore(m) == m.action[1] \in { "Stored", "Quick" }

\* C2: read-your-writes.  When a recall_memory is dispatched after every
\* earlier request has completed, the items its handler finds (served from the
\* cache, or read from the index) include every active item created by
\* store_memory or quick_store whose intent matches the query by keyword.
C2_RecallSeesStoredItems ==
    [][ (nextRid' = nextRid + 1 /\ \A a \in 1..nextRid : Responded(a)) =>
          /\ \A task \in Created :
                task.resp.tool = "recall_memory" =>
                   \A i \in KeywordMatches(units, task.args.text) :
                      CreatedByStore(units[i]) => i \in task.resp.items
          /\ \A e \in pendingEmbeddings' \ pendingEmbeddings :
                e.kind = "recall" =>
                   \A i \in KeywordMatches(units, e.key[1]) :
                      CreatedByStore(units[i]) => i \in e.items ]_vars

\* C3: an inactive item never appears in a retrieval.  Every result that a
\* recall_memory or list_memories handler produces (at dispatch, or when it
\* resumes after the embedder) holds items that are active at that moment.
C3_NoInactiveItemRetrieved ==
    [][ \A task \in Created :
          task.resp.tool \in { "recall_memory", "list_memories" } =>
              task.resp.items \subseteq ActiveIds(units) ]_vars

\* lowercase and trim, the normal form import and cleanup compare intents in
NormalizedIntent(m) == LowerText(m.intent)

\* C4: for every (kind, normalized intent) there is at most one active item.
C4_OneActivePerKindAndIntent ==
    \A i, j \in ActiveIds(units) :
        (units[i].type = units[j].type /\ NormalizedIntent(units[i]) = NormalizedIntent(units[j]))
            => i = j

\* the Jaccard similarity of two token sets is at least num/den
JaccardAtLeast(a, b, num, den) ==
    a \cup b # {} /\ den * Cardinality(a \cap b) >= num * Cardinality(a \cup b)

\* the active items of the kind whose intent is at least 0.7 similar to the text
SimilarActive(ms, type, text) ==
    { i \in ActiveIds(ms) :
        /\ ms[i].type = type
        /\ JaccardAtLeast(Range(tokenize(text)), Range(tokenize(ms[i].intent)), 7, 10) }

\* C5: storing an item whose intent has Jaccard similarity >= 0.7 with an
\* active item of the same kind creates no new item: no step appends an item
\* while an item of the same kind that is at least 0.7 similar to it is active
\* before the step and still active after it.
C5_SimilarStoreCreatesNothing ==
    [][ \A k \in (Len(units) + 1)..Len(units') :
          \A i \in SimilarActive(units, units'[k].type, units'[k].intent) :
             ~units'[i].isActive ]_vars

\* the active items of the kind that the text contradicts: at least half of
\* the tokens shared, and one says "use X" where the other says "never X"
ContradictedActive(ms, type, text) ==
    { i \in ActiveIds(ms) :
        /\ ms[i].type = type
        /\ JaccardAtLeast(Range(tokenize(text)), Range(tokenize(ms[i].intent)), 5, 10)
        /\ Negates(text, ms[i].intent) \/ Negates(ms[i].intent, text) }

\* C6: when store_memory stores an item that contradicts an active item of
\* the same kind, after the call the older item is inactive with superseded_by
\* equal to the new item's id, the new item is active under its own id, and a
\* SUPERSEDED_BY edge from the older to the new item exists.
C6_ContradictionSupersedesOlder ==
    [][ \A task \in Created :
          (task.resp.tool = "store_memory" /\ ~task.resp.isError) =>
             \A older \in ContradictedActive(units, task.args.type, task.args.text) :
                /\ task.resp.memId # older
                /\ units'[task.resp.memId].isActive
                /\ ~units'[older].isActive
                /\ units'[older].supersededBy = task.resp.memId
                /\ [ sourceId |-> older, targetId |-> task.resp.memId,
                     relation |-> "superseded_by" ] \in edges' ]_vars

\* C7: update_memory(id, content) on an existing item creates a replacement
\* item carrying the new content, deactivates the original with superseded_by
\* set to the replacement's id, and records a SUPERSEDED_BY edge from the
\* original to the replacement.
C7_UpdateReplacesAndLinks ==
    [][ \A task \in Created :
          (task.resp.tool = "update_memory" /\ ~task.resp.isError) =>
             LET original == task.resp.target
                 replacement == task.resp.memId
             IN  /\ replacement # original
                 /\ units'[replacement].intent = task.args.text
                 /\ ~units'[original].isActive
                 /\ units'[original].supersededBy = replacement
                 /\ [ sourceId |-> original, targetId |-> replacement,
                      relation |-> "superseded_by" ] \in edges' ]_vars

\* C8: for every inactive item m whose superseded_by is s, an item with id s
\* exists in the store.
C8_SupersederExists ==
    \A i \in 1..Len(units) :
        (~units[i].isActive /\ units[i].supersededBy # NULL)
            => Exists(units, units[i].supersededBy)

\* C9: every active item has 0 <= confidence <= 1 and 0.1 <= importance <= 1.
C9_ActiveItemsInRange ==
    \A i \in ActiveIds(units) :
        /\ 0 <= units[i].confidence /\ units[i].confidence <= 1000
        /\ MIN_IMPORTANCE <= units[i].importance /\ units[i].importance <= 1000

\* C10: deactivate is idempotent: deactivating an item that is already
\* inactive is a no-op, so the item stays one inactive record and every field
\* the first deactivation set, superseded_by included, keeps its value.
C10_DeactivatedItemIsFrozen ==
    [][ \A i \in 1..Len(units) :
          ~units[i].isActive =>
              /\ ~units'[i].isActive
              /\ units'[i].supersededBy = units[i].supersededBy ]_vars

\* C11: importing the same bundle a second time into the same store imports 0
\* items, skips every item of the bundle and leaves the active count unchanged.
C11_SecondImportSkipsAll ==
    \A bundle \in Bundles :
        bundle[1] = 1 =>
            LET first == importMemories(units, bundle[2], ExistingKeys(units), now)
                second == importMemories(first.units, bundle[2],
                                         ExistingKeys(first.units), now)
            IN  /\ second.imported = 0
                /\ second.skipped = Len(bundle[2])
                /\ activeCount(second.units) = activeCount(first.units)

\* the (kind, intent) pairs of the active items
ActivePairs(ms) == { << ms[i].type, ms[i].intent >> : i \in ActiveIds(ms) }

\* C12: exporting a store and importing the bundle into a fresh empty store
\* yields a store with the same number of active items and the same set of
\* (kind, intent) pairs as the active set of the original.
C12_ExportImportPreservesActiveSet ==
    \A memories \in exportMemories(units) :
        LET fresh == importMemories(<< >>, memories, ExistingKeys(<< >>), now).units
        IN  /\ activeCount(fresh) = activeCount(units)
            /\ ActivePairs(fresh) = ActivePairs(units)

\* the names a tools/call request can carry in this model
ToolCalls ==
    { "store_memory", "quick_store", "recall_memory", "update_memory", "delete_memory",
      "list_memories", "import_memories", "scan_project" } \cup UnknownTools

\* C13: every answer to a tools/call request, a failed one included, is a
\* JSON-RPC response that carries the id of the request and a result (with
\* isError set when the call failed); none carries a JSON-RPC error object.
C13_ToolFailureIsResultLevel ==
    \A i \in 1..Len(stdout) :
        stdout[i].tool \in ToolCalls => stdout[i].error = NULL /\ stdout[i].rid # NULL

\* C14: after a failed initialization every tool call, health_check included,
\* is answered with a result carrying isError: true and with no JSON-RPC
\* error object.
C14_DegradedAnswersResultError ==
    \A i \in 1..Len(stdout) :
        stdout[i].tool \in DegradedTools => stdout[i].isError /\ stdout[i].error = NULL

\* the frames written or about to be written
Frames == Range(stdout) \cup { microtasks[i].resp : i \in 1..Len(microtasks) }

\* every answer to an unknown method is an error -32601 with the request's id
UnknownMethodAnswer ==
    \A f \in Frames :
        f.tool \in UnknownMethods =>
            f.error = METHOD_NOT_FOUND /\ f.rid \in 1..nextRid /\ ~f.isError

ParseErrorFrame(frames) == Len(frames) = 1 /\ frames[1].error = PARSE_ERROR

C16_EmbedFailureFallsBackToFTS ==
    [][ \A e \in pendingEmbeddings \ pendingEmbeddings' :
            e.kind = "recall" =>
                \E i \in 1..Len(microtasks') :
                    /\ microtasks'[i].resp.rid = e.rid
                    /\ ~microtasks'[i].resp.isError
                    /\ \A m \in e.items : \E r \in microtasks'[i].resp.items : r = m
      ]_vars

\* the calls answered so far that were not refused
Admitted(tools) ==
    { i \in 1..Len(stdout) :
        stdout[i].tool \in tools /\ ~stdout[i].isError /\ stdout[i].error = NULL }

\* C17: within one process lifetime at most 30 store calls (store_memory and
\* quick_store together) and at most 500 tool calls in total are admitted;
\* every call beyond a limit is refused.
C17_CallsAdmittedWithinLimits ==
    /\ Cardinality(Admitted({ "store_memory", "quick_store" })) <= MAX_STORES_PER_SESSION
    /\ Cardinality(Admitted(ToolCalls)) <= MAX_CALLS_PER_SESSION

\* C18: an item is found by the keyword stage of a recall for its own words
\* from the step that created it, whether or not it has a vector; vector
\* search returns only items of the vector table, and an item enters that
\* table only when the embedding requested by its store call is answered.
C18_KeywordAtOnceVectorAfterEmbedding ==
    [][ /\ \A k \in (Len(units) + 1)..Len(units') :
              units'[k].isActive => k \in FtsStage(units', units'[k].intent)
        /\ searchVector(units', vectors') \subseteq vectors'
        /\ \A i \in vectors' \ vectors :
              \E e \in pendingEmbeddings \ pendingEmbeddings' :
                  e.kind = "store" /\ e.memId = i /\ Exists(units, i)
      ]_vars

\* an item whose embedding is still pending is found by keyword and not by
\* vector, while an item embedded earlier is found by vector
C18_Witness ==
    /\ \E e \in pendingEmbeddings :
           /\ e.kind = "store"
           /\ e.memId \notin vectors
           /\ e.memId \in FtsStage(units, units[e.memId].intent)
           /\ e.memId \notin searchVector(units, vectors)
    /\ searchVector(units, vectors) # {}

\* C19: no step removes an item record: total_count never decreases and every
\* record keeps its id; a delete_memory that succeeds changes nothing in the
\* store but the active flag of the item it names.
C19_NoRecordRemoved ==
    [][ /\ totalCount(units') >= totalCount(units)
        /\ \A i \in 1..Len(units) : units'[i].id = units[i].id
        /\ \A t \in Created :
              (t.resp.tool = "delete_memory" /\ ~t.resp.isError) =>
                  /\ units[t.resp.target].isActive
                  /\ units' = [units EXCEPT ![t.resp.target].isActive = FALSE]
      ]_vars

\* a delete_memory has succeeded and the record it named is still there
C19_Witness ==
    \E i \in 1..Len(stdout) :
        /\ stdout[i].tool = "delete_memory"
        /\ ~stdout[i].isError
        /\ Exists(units, stdout[i].target)
        /\ ~units[stdout[i].target].isActive

\* changes callers pass to update(): the importance written by the decay
\* pass, and the importance and access count written for the keeper of a
\* group of duplicates
UpdateInputs == { [ importance |-> 500 ], [ importance |-> 1000, accessCount |-> 2 ] }

\* the row with exactly the provided fields replaced
Replaced(row, changes) ==
    [ f \in DOMAIN row |-> IF f \in DOMAIN changes THEN changes[f] ELSE row[f] ]

\* C20: update(id, changes) changes nothing when id does not exist or names
\* an inactive item; on an active item it replaces exactly the provided
\* fields and leaves all others unchanged.
C20_UpdateOnlyActiveOnlyProvided ==
    \A id \in 1..(Len(units) + 1), changes \in UpdateInputs :
        LET after == update(units, id, changes)
        IN  IF ~Exists(units, id) \/ ~units[id].isActive
            THEN after = units
            ELSE after = [units EXCEPT ![id] = Replaced(units[id], changes)]

\* the first half of C20 alone: an inactive item is left as it is
C20_InactiveUntouched ==
    \A id \in 1..Len(units), changes \in UpdateInputs :
        ~units[id].isActive => update(units, id, changes) = units

\* the active items of another kind whose intent is at least 0.7 similar
SimilarOtherKind(ms, type, text) ==
    { i \in ActiveIds(ms) :
        /\ ms[i].type # type
        /\ JaccardAtLeast(Range(tokenize(text)), Range(tokenize(ms[i].intent)), 7, 10) }

RejectedBundle(data) == ~data.parses \/ data.version # 1 \/ ~data.hasMemories

ThrowingItems(memories) == { k \in 1..Len(memories) : ItemThrows(memories[k]) }

\* the rows of `before` are still in `after`, changed at most by a touch
KeepsRows(before, after) ==
    /\ Len(after) >= Len(before)
    /\ \A i \in 1..Len(before) :
          [after[i] EXCEPT !.accessCount = 0, !.lastAccessed = NULL]
              = [before[i] EXCEPT !.accessCount = 0, !.lastAccessed = NULL]

\* C22: import_memories given data that is not JSON, a bundle of a version
\* other than 1 or a bundle without memories imports nothing and answers
\* with a result (no exception leaves the handler: no JSON-RPC error frame);
\* in an accepted bundle every entry that fails is counted in `errors`, the
\* other entries are imported or skipped, and no existing row is lost, so the
\* store accepts an add() afterwards.
C22_BadBundleImportsNothing ==
    /\ \A data \in ImportInputs :
          LET h == handleImportMemories(units, data, now)
          IN  IF RejectedBundle(data)
              THEN h.isError /\ h.units = units /\ h.imported = 0
              ELSE /\ ~h.isError
                   /\ h.errors = Cardinality(ThrowingItems(data.memories))
                   /\ h.imported + h.skipped + h.errors = Len(data.memories)
                   /\ Len(h.units) <= Len(units) + h.imported
                   /\ KeepsRows(units, h.units)
                   /\ add(h.units, BundleA[2], now).memory.isActive
    /\ \A f \in Frames : f.tool = "import_memories" => f.error = NULL /\ f.rid # NULL

\* a rejected import and an import that counted errors have been answered,
\* and a store_memory dispatched after them has created an item
C22_Witness ==
    \E i, j, k \in 1..Len(stdout) :
        /\ i < k /\ j < k
        /\ stdout[i].tool = "import_memories" /\ stdout[i].isError
        /\ stdout[j].tool = "import_memories" /\ stdout[j].errors = 2
        /\ stdout[k].tool = "store_memory" /\ ~stdout[k].isError
        /\ Exists(units, stdout[k].memId)

\* C23: on each of SIGINT, SIGTERM and the end of standard input the WAL is
\* checkpointed, then the database handle is closed, then the process exits
\* with code 0; until then the handle is open and nothing of this has happened.
C23_CheckpointCloseExit ==
    IF process.exited
    THEN /\ process.event \in SHUTDOWN_EVENTS
         /\ process.log = << "checkpoint", "close", "exit" >>
         /\ process.database = "closed"
         /\ process.exitCode = 0
    ELSE process.log = << >> /\ process.database = "open"

\* the process has exited on SIGTERM after it had stored an item
C23_Witness ==
    process.exited /\ process.event = "SIGTERM" /\ activeCount(units) > 0

\* --------------------------------------------- a session on a full FREE store
\* the database holds as many active rows as the FREE plan allows, stored in
\* earlier sessions
InitFull ==
    /\ units = StoredUnits(FREE_MAX_MEMORIES)
    /\ edges = {}
    /\ vectors = {}
    /\ recallCache = << >>
    /\ rate = [ totalCalls |-> 0, storeCount |-> 0 ]
    /\ workerReady = FALSE
    /\ pendingEmbeddings = {}
    /\ nextEmbed = 0
    /\ microtasks = << >>
    /\ inLineLoop = FALSE
    /\ nextRid = 0
    /\ stdout = << >>
    /\ now = StartTime
    /\ process = Started

NextFull ==
    \/ \E type \in StoreTypes, content \in Contents : StoreMemory(type, content)
    \/ \E text \in Contents : QuickStore(text)
    \/ \E bundle \in Bundles : ImportMemories(bundle[1], bundle[2])
    \/ \E memoryId \in { 1, FREE_MAX_MEMORIES } : DeleteMemory(memoryId)
    \/ RunMicrotask

SpecFull == InitFull /\ [][NextFull]_vars

\* C24: on the FREE plan the number of active memories never exceeds 20, and
\* no step creates an item while 20 items are already active.
C24_ActiveWithinFreeLimit ==
    [][ /\ activeCount(units') <= FREE_MAX_MEMORIES
        /\ activeCount(units) >= FREE_MAX_MEMORIES => Len(units') = Len(units)
      ]_vars

\* the answer of the request dispatched in this step
Dispatched == microtasks'[Len(microtasks')].resp

\* C25: after update_memory has superseded an item m with superseded_by = s,
\* the item s is active and s is not m itself.
C25_SupersederIsActiveOther ==
    [][ (nextRid' = nextRid + 1 /\ Dispatched.tool = "update_memory"
            /\ ~Dispatched.isError) =>
          LET m == Dispatched.target
              s == units'[m].supersededBy
          IN  /\ ~units'[m].isActive
              /\ s # m
              /\ units'[s].isActive ]_vars

\* C26: the decay maintenance is idempotent: run twice in a row at the same
\* time, it leaves the store as one run leaves it.
C26_DecayIsIdempotent ==
    runDecayMaintenance(runDecayMaintenance(units, now), now)
        = runDecayMaintenance(units, now)

\* memory_fts: the insert trigger indexes every new row and the update trigger
\* re-indexes a changed row; rows are never deleted, so no row leaves the index
FtsIndex(ms) == [ i \in 1..Len(ms) |-> FtsDoc(ms[i]) ]

\* C27: after every mutation of the item table, the set of items present in
\* the FTS index equals the set of active items.
C27_FtsIndexIsActiveSet == DOMAIN FtsIndex(units) = ActiveIds(units)

\* ------------------------------------------- a session with a nearly full cache
\* the recall cache after CACHE_MAX - 1 recalls of distinct queries, none of
\* them looked up again since
EarlierQuery(k) == << RowWord(k) >>

EarlierCache(n) ==
    [ k \in 1..n |->
        [ key |-> RecallKey(EarlierQuery(k), Min(DEFAULT_MAX_RESULTS, MAX_RESULTS_CAP)),
          result |-> {}, time |-> StartTime ] ]

CacheQueries == Queries \cup { EarlierQuery(1) }

InitCache ==
    /\ units = << >>
    /\ edges = {}
    /\ vectors = {}
    /\ recallCache = EarlierCache(CACHE_MAX - 1)
    /\ rate = [ totalCalls |-> 0, storeCount |-> 0 ]
    /\ workerReady = FALSE
    /\ pendingEmbeddings = {}
    /\ nextEmbed = 0
    /\ microtasks = << >>
    /\ inLineLoop = FALSE
    /\ nextRid = 0
    /\ stdout = << >>
    /\ now = StartTime
    /\ process = Started

NextCache ==
    \/ \E query \in CacheQueries : RecallMemory(query)
    \/ \E bundle \in Bundles : ImportMemories(bundle[1], bundle[2])
    \/ RunMicrotask
    \/ Tick

SpecCache == InitCache /\ [][NextCache]_vars

\* C28: the recall cache holds at most 50 entries, and when an insertion
\* would exceed that bound the entry evicted is the least recently used one,
\* a cache hit counting as a use: an entry that was just hit is not the one
\* the next insertion evicts.
C28_CacheBoundedLRU ==
    /\ Len(recallCache) <= CACHE_MAX
    /\ \A i \in 1..Len(recallCache), query \in CacheQueries :
          LET key == recallCache[i].key
              newKey == RecallKey(query, Min(DEFAULT_MAX_RESULTS, MAX_RESULTS_CAP))
              afterHit == getCached(recallCache, key, now)
              afterSet == setCache(afterHit, newKey, {}, now)
          IN  ( /\ Len(recallCache) = CACHE_MAX
                /\ CacheHit(recallCache, key, now)
                /\ CacheIndex(recallCache, newKey) = 0 )
                  => CacheIndex(afterSet, key) # 0

\* ------------------------------------------------------------------ cleanup
INSIGHT_MAX_AGE_DAYS == 30
UNUSED_MAX_AGE_DAYS == 60
MEMORY_CAP == 500
CLEANUP_LIMIT == 5000
STRENGTH_STEP == 50                 \* 0.05
STRENGTH_MAX == 300                 \* 0.3

\* SELECT ... WHERE is_active = 1 ORDER BY timestamp DESC LIMIT ?: the sets of
\* rows the statement can return, rows of equal timestamp in any order
NewestRows(ms, rows, limit) ==
    IF Cardinality(rows) <= limit THEN { rows }
    ELSE { T \in SUBSET rows :
            /\ Cardinality(T) = limit
            /\ \A i \in T : \A j \in rows \ T : ms[j].timestamp <= ms[i].timestamp }

DeactivateAll(ms, ids, supersededBy) ==
    [ i \in 1..Len(ms) |-> IF i \in ids THEN deactivate(ms, i, supersededBy)[i] ELSE ms[i] ]

Unused(m, maxAgeDays, t) == m.accessCount = 0 /\ t - m.createdAt > maxAgeDays * DAY

\* steps 1 and 2: unused INSIGHT rows, then unused rows of any type
cleanupUnused(ms, t) ==
    UNION { LET s1 == DeactivateAll(ms, { i \in T : Unused(ms[i], INSIGHT_MAX_AGE_DAYS, t) },
                                    NULL)
            IN  { DeactivateAll(s1, { i \in A : Unused(s1[i], UNUSED_MAX_AGE_DAYS, t) }, NULL) :
                    A \in NewestRows(s1, ActiveIds(s1), CLEANUP_LIMIT) } :
            T \in NewestRows(ms, { i \in ActiveIds(ms) : ms[i].type = "INSIGHT" },
                             CLEANUP_LIMIT) }

\* the n rows of highest importance
HighestImportance(ms, A, n) ==
    { { i \in A : Cardinality({ j \in A : ms[j].importance > ms[i].importance }) < n } }

\* active.sort((a, b) => a.importance - b.importance).slice(0, n): the sort is
\* stable on a list that is newest first, so among rows of equal importance
\* the newer ones come first; rows equal in both may come in any order.  The
\* first row of the sorted list is taken n times.
RECURSIVE LowestImportance(_, _, _)
LowestImportance(ms, A, n) ==
    IF n = 0 \/ A = {} THEN { {} }
    ELSE LET importances == { ms[i].importance : i \in A }
             lowest == CHOOSE v \in importances : \A w \in importances : v <= w
             times == { ms[i].timestamp : i \in { j \in A : ms[j].importance = lowest } }
             newest == CHOOSE v \in times : \A w \in times : v >= w
             firsts == { i \in A : ms[i].importance = lowest /\ ms[i].timestamp = newest }
         IN  UNION { { {m} \cup R : R \in LowestImportance(ms, A \ {m}, n - 1) } :
                     m \in firsts }

\* step 3: above MEMORY_CAP the rows of lowest importance are deactivated
cleanupCap(ms) ==
    UNION { IF Cardinality(A) > MEMORY_CAP
            THEN { DeactivateAll(ms, R, NULL) :
                     R \in LowestImportance(ms, A, Cardinality(A) - MEMORY_CAP) }
            ELSE { ms } :
            A \in NewestRows(ms, ActiveIds(ms), CLEANUP_LIMIT) }

\* m.intent.toLowerCase().trim()
IntentKey(m) == LowerText(m.intent)

DupGroup(ms, rows, key) == { i \in rows : IntentKey(ms[i]) = key }

\* dupes.sort by importance, descending: the first row is the one of highest
\* importance, the newest of them when several share it
Keepers(ms, dupes) ==
    { i \in dupes : \A j \in dupes :
        \/ ms[j].importance < ms[i].importance
        \/ ms[j].importance = ms[i].importance /\ ms[j].timestamp <= ms[i].timestamp }

strengthBoost(n) == Min(n * STRENGTH_STEP, STRENGTH_MAX)

\* step 4: rows of equal normalized intent are merged into the keeper
cleanupDuplicates(ms) ==
    UNION { LET key == [ i \in A |-> IntentKey(ms[i]) ]
                distinct == Cardinality({ key[i] : i \in A }) = Cardinality(A)
                dupes == [ i \in A |-> { j \in A : key[j] = key[i] } ]
                merged == IF distinct THEN {}
                          ELSE { i \in A : Cardinality(dupes[i]) > 1 }
                keys == { key[i] : i \in merged }
                choices == { f \in [ keys -> 1..Len(ms) ] :
                               \A i \in merged : f[key[i]] \in Keepers(ms, dupes[i]) }
            IN  { [ i \in 1..Len(ms) |->
                      IF i \in merged
                      THEN LET keeper == f[key[i]]
                               n == Cardinality(dupes[i])
                           IN  IF i = keeper
                               THEN update(ms, i,
                                      [ importance |->
                                          Min(ms[i].importance + strengthBoost(n), 1000),
                                        accessCount |-> ms[i].accessCount + n - 1 ])[i]
                               ELSE deactivate(ms, i, keeper)[i]
                      ELSE ms[i] ] : f \in choices } :
            A \in NewestRows(ms, ActiveIds(ms), CLEANUP_LIMIT) }

\* cleanupMemories(): the stores one pass can leave
cleanupMemories(ms, t) ==
    UNION { UNION { cleanupDuplicates(s3) : s3 \in cleanupCap(s2) } :
            s2 \in cleanupUnused(ms, t) }

\* rows written in earlier sessions
AgedRow(k, type, intent, ageDays, accessCount, importance) ==
    [ id |-> k, type |-> type, intent |-> intent, action |-> intent,
      tags |-> << LowerCase(type) >>,
      timestamp |-> StartTime - ageDays * DAY, confidence |-> 800,
      importance |-> importance, accessCount |-> accessCount,
      lastAccessed |-> IF accessCount = 0 THEN NULL ELSE StartTime - DAY,
      supersededBy |-> NULL, isActive |-> TRUE,
      createdAt |-> StartTime - ageDays * DAY ]

AgedUnits ==
    << AgedRow(1, "INSIGHT", << RowWord(1) >>, 20, 0, 500),
       AgedRow(2, "INSIGHT", << RowWord(2) >>, 30, 0, 500),
       AgedRow(3, "DECISION", << RowWord(3) >>, 45, 0, 850),
       AgedRow(4, "DECISION", << RowWord(4) >>, 61, 0, 850),
       AgedRow(5, "INSIGHT", T_CONST, 1, 1, 600) >>

\* the state after start-up, which runs one cleanup pass
InitCleanup ==
    /\ units \in cleanupMemories(AgedUnits, StartTime)
    /\ edges = {}
    /\ vectors = {}
    /\ recallCache = << >>
    /\ rate = [ totalCalls |-> 0, storeCount |-> 0 ]
    /\ workerReady = FALSE
    /\ pendingEmbeddings = {}
    /\ nextEmbed = 0
    /\ microtasks = << >>
    /\ inLineLoop = FALSE
    /\ nextRid = 0
    /\ stdout = << >>
    /\ now = StartTime
    /\ process = Started

\* the interval timer fires
Cleanup ==
    /\ CanRunMacrotask
    /\ Alive
    /\ \E after \in cleanupMemories(units, now) :
          /\ units' = after
          /\ recallCache' = IF ActiveIds(after) # ActiveIds(units) THEN invalidateCache
                            ELSE recallCache
    /\ inLineLoop' = FALSE
    /\ UNCHANGED << edges, vectors, rate, workerReady, pendingEmbeddings, nextEmbed,
                    microtasks, nextRid, stdout, now >>

NextCleanup ==
    \/ \E type \in StoreTypes, content \in Contents : StoreMemory(type, content)
    \/ \E query \in Queries : RecallMemory(query)
    \/ RunMicrotask
    \/ Tick
    \/ Cleanup

SpecCleanup == InitCleanup /\ [][NextCleanup]_vars

\* C29: after a cleanup pass, no active item with access_count = 0 is 30 or
\* more days old, and no active INSIGHT item with access_count = 0 is 14 or
\* more days old.
C29_NoStaleUnusedAfterCleanup ==
    \A after \in cleanupMemories(units, now) :
        \A i \in ActiveIds(after) :
            after[i].accessCount = 0 =>
                /\ now - after[i].createdAt < 30 * DAY
                /\ after[i].type = "INSIGHT" => now - after[i].createdAt < 14 * DAY

RECURSIVE SumAccess(_, _)
SumAccess(ms, ids) ==
    IF ids = {} THEN 0
    ELSE LET i == CHOOSE j \in ids : TRUE
         IN  ms[i].accessCount + SumAccess(ms, ids \ {i})

\* the groups of active rows of equal normalized intent step 4 finds
DupGroups(ms) ==
    { g \in { DupGroup(ms, ActiveIds(ms), IntentKey(ms[i])) : i \in ActiveIds(ms) } :
        Cardinality(g) > 1 }

\* C30: when cleanup merges a group of active items with the same normalized
\* intent, a member of highest importance stays active with importance raised
\* by 0.05 x (group size - 1), capped at 1.0, and access_count equal to the sum
\* of the group's access counts; every other member is inactive with
\* superseded_by set to the kept member.
C30_MergeKeepsStrongest ==
    \A s2 \in cleanupUnused(units, now) : \A s3 \in cleanupCap(s2) :
        \A after \in cleanupDuplicates(s3) : \A g \in DupGroups(s3) :
            \E keeper \in g :
                /\ \A j \in g : s3[j].importance <= s3[keeper].importance
                /\ after[keeper].isActive
                /\ after[keeper].importance =
                      Min(s3[keeper].importance + 50 * (Cardinality(g) - 1), 1000)
                /\ after[keeper].accessCount = SumAccess(s3, g)
                /\ \A j \in g \ {keeper} :
                      ~after[j].isActive /\ after[j].supersededBy = keeper

\* ------------------------------------------------------------ learning rate
TOPIC_STOP_WORDS ==
    { "the", "a", "an", "is", "was", "are", "were", "to", "of", "in", "for",
      "on", "with", "at", "by", "from", "it", "this", "that", "and", "or",
      "but", "not", "do", "does", "did", "don", "dont", "use", "using",
      "should", "must", "never", "always", "avoid", "instead" }

TOPIC_MIN_LEN == 3                  \* w.length > 3
TOPIC_CORRECTIONS == 200            \* getByType(CORRECTION, 200)
TOP_TOPICS == 10                    \* .slice(0, 10)
ULTRA_COUNT == 3
HIGH_COUNT == 2
ULTRA_IMPORTANCE == 950             \* 0.95
HIGH_IMPORTANCE == 850              \* 0.85

\* extractTopicWords(): the vocabulary holds no punctuation
extractTopicWords(text) ==
    SelectSeq(LowerText(text), LAMBDA w : Len(w) > TOPIC_MIN_LEN /\ w \notin TOPIC_STOP_WORDS)

\* the active corrections in the orders the statement can return them
CorrectionLists(ms) ==
    { SubSeq(o, 1, Min(Len(o), TOPIC_CORRECTIONS)) :
        o \in getActive(ms, { i \in ActiveIds(ms) : ms[i].type = "CORRECTION" }) }

\* the topic words of the corrections, in the order the loops meet them
RECURSIVE TopicOccurrences(_, _)
TopicOccurrences(ms, corrections) ==
    IF corrections = << >> THEN << >>
    ELSE LET c == Head(corrections)
             words == extractTopicWords(ms[c].intent)
         IN  [ k \in 1..Len(words) |-> [ topic |-> words[k], id |-> c ] ]
                \o TopicOccurrences(ms, Tail(corrections))

\* .sort((a, b) => b.count - a.count).slice(0, 10): the sort is stable, topics
\* of equal count stay in the order of their first occurrence
TopTopics(freqs) ==
    { f \in freqs :
        Cardinality({ g \in freqs : \/ g.count > f.count
                                   \/ (g.count = f.count /\ g.first < f.first) })
            < TOP_TOPICS }

\* analyzeCorrectionFrequency(): topics with two or more occurrences
analyzeCorrectionFrequency(ms, corrections) ==
    LET occ == TopicOccurrences(ms, corrections)
        at(w) == { k \in 1..Len(occ) : occ[k].topic = w }
        freqs == { [ topic |-> w, count |-> Cardinality(at(w)),
                     first |-> CHOOSE k \in at(w) : \A l \in at(w) : k <= l,
                     memoryIds |-> { occ[k].id : k \in at(w) } ] :
                   w \in { occ[k].topic : k \in 1..Len(occ) } }
    IN  IF Len(corrections) < 2 THEN {}
        ELSE TopTopics({ f \in freqs : f.count >= HIGH_COUNT })

\* boostFrequentCorrections(): the stores one run can leave
boostFrequentCorrections(ms) ==
    { LET freqs == analyzeCorrectionFrequency(ms, corrections)
          ultra == UNION { f.memoryIds : f \in { g \in freqs : g.count >= ULTRA_COUNT } }
          high == UNION { f.memoryIds : f \in { g \in freqs : g.count < ULTRA_COUNT } }
      IN  [ i \in 1..Len(ms) |->
              IF i \in ultra /\ ms[i].importance < ULTRA_IMPORTANCE
              THEN update(ms, i, [ importance |-> ULTRA_IMPORTANCE ])[i]
              ELSE IF i \in high /\ i \notin ultra /\ ms[i].importance < HIGH_IMPORTANCE
              THEN update(ms, i, [ importance |-> HIGH_IMPORTANCE ])[i]
              ELSE ms[i] ] :
      corrections \in CorrectionLists(ms) }

\* corrections written in earlier sessions and decayed since: three share ten
\* topic words, two others share an eleventh
Words(from, to) == [ k \in 1..(to - from + 1) |-> RowWord(from + k - 1) ]

BoostUnits ==
    << AgedRow(1, "CORRECTION", Words(1, 10) \o Words(21, 25), 14, 0, 500),
       AgedRow(2, "CORRECTION", Words(1, 10) \o Words(31, 35), 13, 0, 500),
       AgedRow(3, "CORRECTION", Words(1, 10) \o Words(41, 45), 12, 0, 500),
       AgedRow(4, "CORRECTION", << RowWord(11), RowWord(51), RowWord(52) >>, 11, 0, 500),
       AgedRow(5, "CORRECTION", << RowWord(11), RowWord(61), RowWord(62) >>, 10, 0, 500) >>

InitBoost ==
    /\ units \in { BoostUnits, SubSeq(BoostUnits, 1, 3) }
    /\ edges = {}
    /\ vectors = {}
    /\ recallCache = << >>
    /\ rate = [ totalCalls |-> 0, storeCount |-> 0 ]
    /\ workerReady = FALSE
    /\ pendingEmbeddings = {}
    /\ nextEmbed = 0
    /\ microtasks = << >>
    /\ inLineLoop = FALSE
    /\ nextRid = 0
    /\ stdout = << >>
    /\ now = StartTime
    /\ process = Started

\* ------------------------------------------------------------ consolidation
CONSOLIDATE_LIMIT == 500            \* getActive(500)
CONSOLIDATE_MIN_ACTIVE == 10
CONSOLIDATE_MIN_GROUP == 3
CONSOLIDATE_ABOVE == 50             \* shouldConsolidate: activeCount() > 50
COMMON_WORDS_MAX == 10
TOPIC_WORDS_MAX == 5
MERGED_CONFIDENCE == 850            \* 0.85

CONSOLIDATOR_STOP_WORDS ==
    { "the", "a", "an", "is", "was", "are", "were", "to", "of", "in", "for",
      "on", "with", "at", "by", "from", "it", "this", "that", "and", "or", "but" }

\* the consolidator's own tokenize()
consolidatorTokenize(text) ==
    SelectSeq(LowerText(text), LAMBDA w : Len(w) > 2 /\ w \notin CONSOLIDATOR_STOP_WORDS)

\* a looser test: one word in four shared
jaccardAboveQuarter(a, b) ==
    LET inter == Cardinality(Range(a) \cap Range(b))
        union == Cardinality(Range(a) \cup Range(b))
    IN  union # 0 /\ 4 * inter > union

\* jaccardSimilarity(a, b) > 0.5
jaccardAboveHalf(a, b) ==
    LET inter == Cardinality(Range(a) \cap Range(b))
        union == Cardinality(Range(a) \cup Range(b))
    IN  union # 0 /\ 2 * inter > union

RECURSIVE FlatTokens(_, _)
FlatTokens(ms, group) ==
    IF group = << >> THEN << >>
    ELSE consolidatorTokenize(ms[Head(group)].intent) \o FlatTokens(ms, Tail(group))

\* the words found in at least 60% of the group's texts, most frequent first,
\* words of equal frequency in the order they were first met; ten at most
commonWords(ms, group) ==
    LET allWords == FlatTokens(ms, group)
        at(w) == { k \in 1..Len(allWords) : allWords[k] = w }
        first(w) == CHOOSE k \in at(w) : \A l \in at(w) : k <= l
        threshold == (Len(group) * 6 + 9) \div 10
        common == { w \in Range(allWords) : Cardinality(at(w)) >= threshold }
        before(w) == { v \in common :
                        \/ Cardinality(at(v)) > Cardinality(at(w))
                        \/ (Cardinality(at(v)) = Cardinality(at(w)) /\ first(v) < first(w)) }
    IN  [ k \in 1..Min(Cardinality(common), COMMON_WORDS_MAX) |->
            CHOOSE w \in common : Cardinality(before(w)) = k - 1 ]

\* findSimilarGroups(): the rows are scanned in the order given; a row joins
\* the group of the first unused seed it resembles
RECURSIVE findSimilarGroups(_, _, _, _)
findSimilarGroups(ms, memories, i, used) ==
    IF i > Len(memories) THEN << >>
    ELSE IF memories[i] \in used THEN findSimilarGroups(ms, memories, i + 1, used)
    ELSE LET wordsI == consolidatorTokenize(ms[memories[i]].intent)
             group == << memories[i] >> \o
                 SelectSeq(SubSeq(memories, i + 1, Len(memories)),
                           LAMBDA j : j \notin used /\
                               jaccardAboveHalf(wordsI, consolidatorTokenize(ms[j].intent)))
         IN  IF Len(group) >= CONSOLIDATE_MIN_GROUP
             THEN << [ type |-> ms[group[1]].type, memories |-> group,
                       commonWords |-> commonWords(ms, group) ] >>
                    \o findSimilarGroups(ms, memories, i + 1, used \cup Range(group))
             ELSE findSimilarGroups(ms, memories, i + 1, used)

Decimal(n) ==
    IF n < 10 THEN DIGITS[n + 1] ELSE DIGITS[((n \div 10) % 10) + 1] \o DIGITS[(n % 10) + 1]

RECURSIVE SumImportance(_, _)
SumImportance(ms, group) ==
    IF group = << >> THEN 0
    ELSE ms[Head(group)].importance + SumImportance(ms, Tail(group))

RECURSIVE UnionTags(_, _)
UnionTags(ms, group) ==
    IF group = << >> THEN << "consolidated" >>
    ELSE LET rest == UnionTags(ms, SubSeq(group, 1, Len(group) - 1))
         IN  rest \o SelectSeq(ms[group[Len(group)]].tags, LAMBDA t : t \notin Range(rest))

\* createMergedMemory(): the template sentence of the kind, without its
\* punctuation
createMergedMemory(ms, group, type) ==
    LET count == Len(group.memories)
        topicWords == SubSeq(group.commonWords, 1, Min(Len(group.commonWords), TOPIC_WORDS_MAX))
        intent ==
            CASE type = "BUG_FIX" ->
                   << "Recurring", "bug", "pattern", Decimal(count), "fixes", "topics" >>
                       \o topicWords
              [] type = "CORRECTION" ->
                   << "Repeated", "correction", Decimal(count) \o "x" >> \o topicWords
                       \o << "pattern", "suggests", "this", "area", "needs", "attention" >>
              [] type = "DECISION" ->
                   << "Consolidated", "decision", Decimal(count), "related" >> \o topicWords
              [] type = "CONVENTION" ->
                   << "Established", "convention", Decimal(count), "mentions" >> \o topicWords
              [] type = "INSIGHT" ->
                   << "Key", "insight", "from", Decimal(count), "observations" >> \o topicWords
              [] OTHER ->
                   << "Consolidated", "memory", Decimal(count) >> \o topicWords
    IN  [ type |-> type, intent |-> intent,
          action |-> << "Merged", Decimal(count), "similar", "memories", "about" >>
                        \o topicWords \o << "Originals", "deactivated" >>,
          tags |-> UnionTags(ms, group.memories),
          confidence |-> MERGED_CONFIDENCE,
          importance |-> Min(1000, (SumImportance(ms, group.memories) * 12) \div (count * 10)) ]

\* the kinds in the order the Map met them
TypesInOrder(ms, active) ==
    LET types == { ms[active[k]].type : k \in 1..Len(active) }
        firstAt(type) ==
            CHOOSE k \in 1..Len(active) :
                /\ ms[active[k]].type = type
                /\ \A l \in 1..(k - 1) : ms[active[l]].type # type
    IN  [ n \in 1..Cardinality(types) |->
            CHOOSE type \in types :
                Cardinality({ u \in types : firstAt(u) < firstAt(type) }) = n - 1 ]

RECURSIVE GroupsOfTypes(_, _, _)
GroupsOfTypes(ms, active, types) ==
    IF types = << >> THEN << >>
    ELSE LET memories == SelectSeq(active, LAMBDA i : ms[i].type = Head(types))
         IN  (IF Len(memories) < CONSOLIDATE_MIN_GROUP THEN << >>
              ELSE findSimilarGroups(ms, memories, 1, {}))
                \o GroupsOfTypes(ms, active, Tail(types))

\* the merged row is added, the originals deactivated and linked to it
RECURSIVE MergeGroups(_, _, _, _)
MergeGroups(snapshot, st, groups, t) ==
    IF groups = << >> THEN st
    ELSE LET group == Head(groups)
             added == add(st.units, createMergedMemory(snapshot, group, group.type), t)
             newId == added.memory.id
         IN  MergeGroups(snapshot,
                 [ units |-> DeactivateAll(added.units, Range(group.memories), newId),
                   edges |-> st.edges \cup
                       { [ sourceId |-> old, targetId |-> newId, relation |-> "replaced_by" ] :
                           old \in Range(group.memories) },
                   mergeCount |-> st.mergeCount + 1 ],
                 Tail(groups), t)

\* ORDER BY timestamp DESC: the orders the statement can return the rows in,
\* rows of equal timestamp in any order
NewestFirst(ms, ids) ==
    LET newer(i) == Cardinality({ j \in ids : ms[j].timestamp > ms[i].timestamp })
        same(i) == { j \in ids : ms[j].timestamp = ms[i].timestamp }
        tied == { i \in ids : Cardinality(same(i)) > 1 }
        breaks == { t \in [ tied -> 0..Cardinality(tied) ] :
                      \A i \in tied :
                          /\ t[i] < Cardinality(same(i))
                          /\ \A j \in same(i) \ {i} : t[j] # t[i] }
    IN  { [ k \in 1..Cardinality(ids) |->
              CHOOSE i \in ids :
                  newer(i) + (IF i \in tied THEN t[i] ELSE 0) = k - 1 ] :
          t \in breaks }

\* the rows getActive(500) can return, newest first
ActiveLists(ms) ==
    { SubSeq(o, 1, Min(Len(o), CONSOLIDATE_LIMIT)) : o \in NewestFirst(ms, ActiveIds(ms)) }

\* consolidateMemories(): the stores and edges one pass can leave
consolidateMemories(ms, es, t) ==
    { IF Len(active) < CONSOLIDATE_MIN_ACTIVE
      THEN [ units |-> ms, edges |-> es, mergeCount |-> 0 ]
      ELSE MergeGroups(ms, [ units |-> ms, edges |-> es, mergeCount |-> 0 ],
                       GroupsOfTypes(ms, active, TypesInOrder(ms, active)), t) :
      active \in ActiveLists(ms) }

shouldConsolidate(ms) == activeCount(ms) > CONSOLIDATE_ABOVE

\* ------------------------------------------------------------- force_recall
\* the maintenance layer of handleForceRecall: decay, learning-rate boost and,
\* above fifty active rows, consolidation; the layers after it only read
Maintenance(ms, es, t) ==
    UNION { IF shouldConsolidate(boosted)
            THEN { [ units |-> c.units, edges |-> c.edges ] :
                     c \in consolidateMemories(boosted, es, t) }
            ELSE { [ units |-> boosted, edges |-> es ] } :
            boosted \in boostFrequentCorrections(runDecayMaintenance(ms, t)) }

ForceRecall ==
    LET rid == nextRid + 1
    IN  /\ CanDispatch
        /\ Alive
        /\ \E after \in Maintenance(units, edges, now) :
              /\ units' = after.units
              /\ edges' = after.edges
        /\ Dispatch(Task(HOPS_AWAITED, "write",
                Response(rid, "force_recall", FALSE, {}, NULL, NULL), NoKey, NoArgs))
        /\ UNCHANGED << vectors, recallCache, rate, workerReady, pendingEmbeddings,
                        nextEmbed, stdout, now >>

NextBoost ==
    \/ \E type \in StoreTypes, content \in Contents : StoreMemory(type, content)
    \/ \E memoryId \in 1..3 : DeleteMemory(memoryId)
    \/ ForceRecall
    \/ RunMicrotask
    \/ Tick

SpecBoost == InitBoost /\ [][NextBoost]_vars

\* the active corrections whose text holds the topic word
CorrectionsAbout(ms, w) ==
    { i \in ActiveIds(ms) :
        ms[i].type = "CORRECTION" /\ w \in Range(extractTopicWords(ms[i].intent)) }

\* C31: after the learning-rate boost runs, every active CORRECTION item that
\* contributes to a topic occurring in at least 3 active corrections has
\* importance >= 0.95, and every one contributing to a topic occurring in at
\* least 2 has importance >= 0.85.
C31_FrequentCorrectionsBoosted ==
    \A after \in boostFrequentCorrections(units) :
        \A i \in ActiveIds(units) :
            units[i].type = "CORRECTION" =>
                \A w \in Range(extractTopicWords(units[i].intent)) :
                    /\ Cardinality(CorrectionsAbout(units, w)) >= 3
                          => after[i].importance >= 950
                    /\ Cardinality(CorrectionsAbout(units, w)) >= 2
                          => after[i].importance >= 850

\* ------------------------------------------- a session on a store at the cap
\* the database held ExtraRows rows more than the cap when the server started
ExtraRows == 2

CapUnits ==
    [ k \in 1..(MEMORY_CAP + ExtraRows) |->
        [ StoredRow(k) EXCEPT !.importance = 300 + (k \div 2) ] ]

InitCap ==
    /\ units \in cleanupMemories(CapUnits, StartTime)
    /\ edges = {}
    /\ vectors = {}
    /\ recallCache = << >>
    /\ rate = [ totalCalls |-> 0, storeCount |-> 0 ]
    /\ workerReady = FALSE
    /\ pendingEmbeddings = {}
    /\ nextEmbed = 0
    /\ microtasks = << >>
    /\ inLineLoop = FALSE
    /\ nextRid = 0
    /\ stdout = << >>
    /\ now = StartTime
    /\ process = Started

NextCap ==
    \/ \E bundle \in { << 1, BundleA >>, << 1, BundleB >> } :
          ImportMemories(bundle[1], bundle[2])
    \/ RunMicrotask
    \/ Cleanup

SpecCap == InitCap /\ [][NextCap]_vars

FillerTypes == << "DECISION", "CONVENTION", "BUG_FIX", "INSIGHT" >>
FillerRows == 52

\* a row written the day before, the k-th a minute older than the one after it
ConsRow(k, type, intent) ==
    [ AgedRow(k, type, intent, 1, 0, 700) EXCEPT
        !.timestamp = StartTime - DAY - (100 - k),
        !.createdAt = StartTime - DAY - (100 - k) ]

\* rows of four kinds that resemble nothing, then corrections that share
\* three words of four, or two of four
ConsUnits ==
    [ k \in 1..FillerRows |-> ConsRow(k, FillerTypes[(k % 4) + 1], << RowWord(k) >>) ]
    \o << ConsRow(FillerRows + 1, "CORRECTION", Words(101, 103) \o << RowWord(111) >>),
          ConsRow(FillerRows + 2, "CORRECTION", Words(101, 103) \o << RowWord(112) >>),
          ConsRow(FillerRows + 3, "CORRECTION", Words(101, 103) \o << RowWord(113) >>),
          ConsRow(FillerRows + 4, "CORRECTION", Words(101, 102) \o Words(114, 115)) >>

InitConsolidate ==
    /\ units = ConsUnits
    /\ edges = {}
    /\ vectors = {}
    /\ recallCache = << >>
    /\ rate = [ totalCalls |-> 0, storeCount |-> 0 ]
    /\ workerReady = FALSE
    /\ pendingEmbeddings = {}
    /\ nextEmbed = 0
    /\ microtasks = << >>
    /\ inLineLoop = FALSE
    /\ nextRid = 0
    /\ stdout = << >>
    /\ now = StartTime
    /\ process = Started

NextConsolidate ==
    \/ ForceRecall
    \/ \E memoryId \in { 1, FillerRows + 1, FillerRows + 4 } : DeleteMemory(memoryId)
    \/ \E bundle \in { << 1, BundleA >> } : ImportMemories(bundle[1], bundle[2])
    \/ RunMicrotask

SpecConsolidate == InitConsolidate /\ [][NextConsolidate]_vars

\* the active rows that have, among the other active rows of their kind, two
\* or more whose words overlap theirs by half or more
SimilarSeeds(ms) ==
    { i \in ActiveIds(ms) :
        Cardinality({ j \in ActiveIds(ms) \ {i} :
            /\ ms[j].type = ms[i].type
            /\ JaccardAtLeast(Range(consolidatorTokenize(ms[i].intent)),
                              Range(consolidatorTokenize(ms[j].intent)), 1, 2) }) >= 2 }

\* C33: when no group of 3 or more similar active items of one kind remains,
\* a consolidation pass creates no item, deactivates no item and adds no edge.
C33_ConsolidationFixedPoint ==
    SimilarSeeds(units) = {} =>
        \A c \in consolidateMemories(units, edges, now) :
            c.units = units /\ c.edges = edges /\ c.mergeCount = 0

\* a pass has merged a group, no group remains and the store is still large
\* enough for the next force_recall to run a pass
C33_Witness ==
    /\ \E i \in ActiveIds(units) : "consolidated" \in Range(units[i].tags)
    /\ \E e \in edges : e.relation = "replaced_by"
    /\ SimilarSeeds(units) = {}
    /\ shouldConsolidate(units)

\* the requests whose response has been written
Answered == { stdout[k].rid : k \in 1..Len(stdout) }

\* C34: every request line received before standard input closes, or before
\* a termination signal, has its response written to standard output before
\* the database is closed and the process exits.
C34_AnsweredBeforeExit ==
    process.exited => \A rid \in 1..nextRid : rid \in Answered

\* ------------------------------------------------------ opening the database
SCHEMA_VERSION == 1

\* the database file as found: whether the schema_version table exists,
\* whether it holds a row, and the version in that row
DbFile(hasVersionTable, hasRow, version) ==
    [ hasVersionTable |-> hasVersionTable, hasRow |-> hasRow, version |-> version ]

StoredFiles ==
    { DbFile(FALSE, FALSE, 0), DbFile(TRUE, FALSE, 0) }
        \cup { DbFile(TRUE, TRUE, v) : v \in 0..(SCHEMA_VERSION + 1) }

migrate(file, fromVersion) == [ file EXCEPT !.version = SCHEMA_VERSION ]

\* initialize(): a new file gets the schema and the current version, an older
\* one is migrated, anything else is taken as it is
initialize(file) ==
    IF ~file.hasVersionTable THEN DbFile(TRUE, TRUE, SCHEMA_VERSION)
    ELSE IF file.hasRow /\ file.version < SCHEMA_VERSION THEN migrate(file, file.version)
    ELSE file

\* new CognitiveDatabase(dataDir): nothing in the constructor throws on the
\* version found, so the handle is open afterwards
Opened(file) ==
    [ database |-> "open", log |-> << >>, exited |-> FALSE, exitCode |-> NULL,
      event |-> "", stored |-> file, schema |-> initialize(file) ]

InitOpen ==
    /\ units = << >>
    /\ edges = {}
    /\ vectors = {}
    /\ recallCache = << >>
    /\ rate = [ totalCalls |-> 0, storeCount |-> 0 ]
    /\ workerReady = FALSE
    /\ pendingEmbeddings = {}
    /\ nextEmbed = 0
    /\ microtasks = << >>
    /\ inLineLoop = FALSE
    /\ nextRid = 0
    /\ stdout = << >>
    /\ now = StartTime
    /\ process \in { Opened(file) : file \in StoredFiles }

NextOpen ==
    \/ \E type \in StoreTypes, content \in Contents : StoreMemory(type, content)
    \/ \E memoryId \in 1..MaxRequests : DeleteMemory(memoryId)
    \/ RunMicrotask
    \/ \E event \in SHUTDOWN_EVENTS : Shutdown(event)

SpecOpen == InitOpen /\ [][NextOpen]_vars

\* C35: opening a database whose stored schema_version is higher than the
\* version the code supports is refused: initialization fails, and the stored
\* schema and version are left unchanged.
C35_NewerSchemaRefused ==
    (process.stored.hasRow /\ process.stored.version > SCHEMA_VERSION) =>
        /\ process.database = "none"
        /\ process.schema = process.stored

\* ------------------------------------------------- the graph walk in general
MaxHops == 2          \* largest maxHops a caller passes
MaxRelated == 3       \* largest limit a caller passes

\* the recursive step of the CTE `related`: an edge leaving the last item of
\* a row whose depth is below maxHops and whose target is not on the path
\* (ids are fixed-length UUIDs, so LIKE '%id%' on the path is membership)
relatedStep(es, rows, maxHops) ==
    { [ id |-> p[2].targetId, depth |-> p[1].depth + 1,
        path |-> Append(p[1].path, p[2].targetId) ] :
        p \in { q \in rows \X es : /\ q[2].sourceId = q[1].id
                                   /\ q[1].depth < maxHops
                                   /\ q[2].targetId \notin Range(q[1].path) } }

RECURSIVE relatedFrom(_, _, _)
relatedFrom(es, rows, maxHops) ==
    LET next == rows \cup relatedStep(es, rows, maxHops)
    IN  IF next = rows THEN rows ELSE relatedFrom(es, next, maxHops)

\* WITH RECURSIVE related(id, depth, path): the anchor rows are the edges
\* leaving the start item
related(es, id, maxHops) ==
    relatedFrom(es,
        { [ id |-> e.targetId, depth |-> 1, path |-> << id, e.targetId >> ] :
            e \in { x \in es : x.sourceId = id } },
        maxHops)

\* the second of two rows that ORDER BY depth ASC may not put first
depthAfter(a, b) == a.depth > b.depth

\* getRelated(id, maxHops, limit): SELECT DISTINCT m.*, r.depth of the rows
\* joined with the active items, ORDER BY r.depth ASC LIMIT ?; rows of one
\* depth come in an order SQLite does not fix. Each result is a set of
\* (memory id, depth) rows; the score of a row is 1 / (depth + 1)
getRelatedWithin(ms, es, id, maxHops, limit) ==
    LET rows == { [ id |-> r.id, depth |-> r.depth ] :
                    r \in { x \in related(es, id, maxHops) :
                              Exists(ms, x.id) /\ ms[x.id].isActive } }
    IN  { R \in SUBSET rows :
            /\ Cardinality(R) = Min(limit, Cardinality(rows))
            /\ \A a \in R, b \in rows \ R : ~depthAfter(a, b) }

\* ------------------------------------------------ a session that links items
T_TABS == << "indent", "with", "tabs", "never", "spaces" >>

\* negates T_CONST and shares two of its three tokens with it: a
\* contradiction (>= 0.5) that is no duplicate (< 0.7)
T_VAR_NOW == << "Always", "use", "var", "never", "const", "now" >>

GraphContents == { T_CONST, T_VAR_NOW, T_TABS }

NextGraph ==
    \/ \E type \in StoreTypes, content \in GraphContents : StoreMemory(type, content)
    \/ \E memoryId \in 1..(Len(units) + 1) : DeleteMemory(memoryId)
    \/ RunMicrotask

SpecGraph == Init /\ [][NextGraph]_vars

\* the items reached from `from` by exactly n edges
RECURSIVE StepsFrom(_, _, _)
StepsFrom(es, from, n) ==
    IF n = 0 THEN from
    ELSE { e.targetId : e \in { x \in es : x.sourceId \in StepsFrom(es, from, n - 1) } }

\* the number of edges on a shortest path from a to b, within maxHops
Distance(es, a, b, maxHops) ==
    LET ds == { d \in 1..maxHops : b \in StepsFrom(es, {a}, d) }
    IN  IF ds = {} THEN NULL ELSE CHOOSE d \in ds : \A o \in ds : d <= o

\* C36: get_related(id, max_hops, limit) returns only active items reachable
\* from id within max_hops edges, never the start item, each item at most
\* once, and at the depth (score 1/(depth+1)) of its shortest path
C36_RelatedOncePerItemAtShortestDepth ==
    \A id \in 1..Len(units), maxHops \in 1..MaxHops, limit \in 1..MaxRelated :
        \A R \in getRelatedWithin(units, edges, id, maxHops, limit) :
            /\ \A r \in R : /\ units[r.id].isActive
                            /\ r.id # id
                            /\ r.depth = Distance(edges, id, r.id, maxHops)
            /\ \A a \in R, b \in R : a.id = b.id => a = b

\* --------------------------------------------- a session of long queries
MaxWords == 9         \* words of the longest query

T_TOPICS == << "auth", "db", "api", "error", "style" >>

\* queries of up to MaxWords distinct words without synonyms, and one whose
\* words all have synonyms
LongQueries == { Words(1, n) : n \in 1..MaxWords } \cup { T_TOPICS }

NextExpand ==
    \/ \E query \in LongQueries : RecallMemory(query)
    \/ \E type \in StoreTypes, content \in Contents : StoreMemory(type, content)
    \/ RunMicrotask

SpecExpand == Init /\ [][NextExpand]_vars

\* the queries of the recall requests that are being answered
RecallQueries ==
    { microtasks[k].key[1] : k \in { j \in 1..Len(microtasks) : microtasks[j].key # NoKey } }

\* C37: the expanded FTS query of every recall query has at most 8 terms,
\* also when the query itself has more than 8 words
C37_ExpansionAtMostEightTerms ==
    \A query \in RecallQueries : Len(expandQuery(query)) <= EXPANSION_CAP

\* ------------------------------------------------------------ rankResults
\* CONFIG.TYPE_BOOST, in tenths; `|| 1.0` for a type without an entry
TYPE_BOOST(type) ==
    CASE type = "CORRECTION" -> 15
      [] type = "DECISION" -> 13
      [] type = "CONVENTION" -> 12
      [] type = "BUG_FIX" -> 11
      [] type = "INSIGHT" -> 10
      [] type = "DEPENDENCY" -> 8
      [] OTHER -> 10

\* the words of the indexed columns of a row, in order
FtsWords(m) == LowerText(m.intent \o m.action \o m.tags)

\* the rank FTS5 gives a row for a query is a function of how often the
\* query's terms occur in the row and of the length of the row (the other
\* inputs of bm25 are the same for all rows of one search); -rank grows with
\* the occurrences and falls with the length
ftsScore(m, terms) ==
    LET words == FtsWords(m)
        tf == Cardinality({ k \in 1..Len(words) : Stem(words[k]) \in StemAll(terms) })
    IN  (1000 * tf) \div (tf + Len(words))

\* the sequences that list every element of S once
Orders(S) ==
    { s \in [ 1..Cardinality(S) -> S ] : \A i, j \in DOMAIN s : i # j => s[i] # s[j] }

\* searchFTS(query, limit) with its scores: ORDER BY fts.rank LIMIT ?; rows
\* of equal rank come in an order SQLite does not fix
searchFTSRanked(ms, terms, anyTerm, limit) ==
    { [ k \in 1..Min(limit, Len(s)) |->
          [ memory |-> ms[s[k]], score |-> ftsScore(ms[s[k]], terms) ] ] :
        s \in { o \in Orders(searchFTS(ms, terms, anyTerm)) :
                  \A i, j \in DOMAIN o :
                      i < j => ftsScore(ms[o[i]], terms) >= ftsScore(ms[o[j]], terms) } }

\* the rows of `results` whose id is not in `seen` and not earlier in
\* `results`, each with its boosted score:
\* r.score * boost * accessBoost * recencyBoost (no currentFile: fileBoost 1)
RECURSIVE boosted(_, _, _)
boosted(results, seen, t) ==
    IF results = << >> THEN << >>
    ELSE LET r == Head(results)
             m == r.memory
             ageMs == t - (IF m.createdAt # 0 THEN m.createdAt ELSE m.timestamp)
             recencyBoost == IF ageMs < DAY THEN 15 ELSE IF ageMs < 7 * DAY THEN 12 ELSE 10
             accessBoost == 10 + m.accessCount
         IN  IF m.id \in seen THEN boosted(Tail(results), seen, t)
             ELSE << [ memory |-> m,
                       score |-> r.score * TYPE_BOOST(m.type) * accessBoost * recencyBoost ] >>
                  \o boosted(Tail(results), seen \cup { m.id }, t)

\* Array.prototype.sort with (a, b) => b.score - a.score: descending, and
\* stable, so entries of equal score keep the order they had
RECURSIVE sortByScore(_)
sortByScore(merged) ==
    IF merged = << >> THEN << >>
    ELSE LET sorted == sortByScore(SubSeq(merged, 1, Len(merged) - 1))
             x == merged[Len(merged)]
             k == Cardinality({ i \in 1..Len(sorted) : sorted[i].score >= x.score })
         IN  SubSeq(sorted, 1, k) \o << x >> \o SubSeq(sorted, k + 1, Len(sorted))

rankResults(ftsResults, vectorResults, maxResults, t) ==
    LET fts == boosted(ftsResults, {}, t)
        vector == boosted(vectorResults, { fts[k].memory.id : k \in 1..Len(fts) }, t)
        merged == sortByScore(fts \o vector)
    IN  SubSeq(merged, 1, Min(maxResults, Len(merged)))

\* steps 1 to 3 of handleRecallMemory while the worker is not ready: the
\* rankings the handler can compute for a query
Rankings(ms, query, maxResults, t) ==
    LET expanded == expandQuery(query)
        differs == Len(expanded) # 1 \/ expanded # query
        first == IF differs /\ expanded # << >>
                 THEN searchFTSRanked(ms, expanded, TRUE, maxResults * 2) ELSE { << >> }
        raw == searchFTSRanked(ms, query, FALSE, maxResults * 2)
    IN  { rankResults(fts, << >>, maxResults * 2, t) :
            fts \in (first \ { << >> }) \cup (IF << >> \in first THEN raw ELSE {}) }

\* ------------------------------------- a session of items that rank alike
T_TWO == << "indent", "with", "two", "never", "four" >>

RankContents == { T_TABS, T_TWO }

RankQueries == { << "indent" >>, << "tabs" >> }

NextRank ==
    \/ \E type \in StoreTypes, content \in RankContents : StoreMemory(type, content)
    \/ \E query \in RankQueries : RecallMemory(query)
    \/ RunMicrotask
    \/ Tick

SpecRank == Init /\ [][NextRank]_vars

\* C38: of two results with identical scores the one with the later
\* timestamp comes first, and of two with identical scores and timestamps
\* the one with the smaller id comes first
C38_TiesByTimestampThenId ==
    \A query \in RankQueries :
        \A ranked \in Rankings(units, query, DEFAULT_MAX_RESULTS, now) :
            \A i, j \in DOMAIN ranked :
                (i < j /\ ranked[i].score = ranked[j].score) =>
                    \/ ranked[i].memory.timestamp > ranked[j].memory.timestamp
                    \/ /\ ranked[i].memory.timestamp = ranked[j].memory.timestamp
                       /\ ranked[i].memory.id < ranked[j].memory.id

\* ------------------------------------------------ searchVector with a limit
VectorRows == 3        \* rows with vectors that an earlier session left
MaxVectorLimit == 2    \* largest limit passed to searchVector

\* the text whose embedding is stored for a row (the stored content)
EmbeddedText(ms, id) == IF Exists(ms, id) THEN ms[id].intent ELSE << >>

\* results.sort((a, b) => b.score - a.score) over all of this.vectors: the
\* vector of the query's own text has the greatest cosine (1.0); the model
\* does not compute the other cosines, so the others come in any order
cosineOrders(ms, vecs, query) ==
    { o \in Orders(vecs) :
        \A i, j \in DOMAIN o :
            (i < j /\ EmbeddedText(ms, o[j]) = query) => EmbeddedText(ms, o[i]) = query }

\* searchVector(queryEmbedding, limit) on the sorted scores:
\* results.slice(0, limit).map(get).filter(r => r.memory && r.memory.isActive)
searchVectorSorted(ms, sorted, limit) ==
    { id \in { sorted[k] : k \in 1..Min(limit, Len(sorted)) } :
        Exists(ms, id) /\ ms[id].isActive }

\* the store of a session that follows one in which VectorRows items were
\* stored and embedded: the constructor loads every row of memory_vectors
InitVector ==
    /\ units = StoredUnits(VectorRows)
    /\ edges = {}
    /\ vectors = 1..VectorRows
    /\ recallCache = << >>
    /\ rate = [ totalCalls |-> 0, storeCount |-> 0 ]
    /\ workerReady = FALSE
    /\ pendingEmbeddings = {}
    /\ nextEmbed = 0
    /\ microtasks = << >>
    /\ inLineLoop = FALSE
    /\ nextRid = 0
    /\ stdout = << >>
    /\ now = StartTime
    /\ process = Started

VectorQueries == { EarlierQuery(1), EarlierQuery(2) }

NextVector ==
    \/ \E memoryId \in 1..(Len(units) + 1) : DeleteMemory(memoryId)
    \/ \E query \in VectorQueries : RecallMemory(query)
    \/ RunMicrotask
    \/ WorkerReady
    \/ \E e \in pendingEmbeddings : EmbedResult(e)

SpecVector == InitVector /\ [][NextVector]_vars

\* C39: search_vector(query, limit) returns the limit highest-cosine active
\* items that have vectors, fewer only when fewer such items exist
C39_VectorSearchFillsWithActive ==
    \A query \in VectorQueries, limit \in 1..MaxVectorLimit :
        \A sorted \in cosineOrders(units, vectors, query) :
            searchVectorSorted(units, sorted, limit) =
                { sorted[k] : k \in { i \in DOMAIN sorted :
                    /\ sorted[i] \in searchVector(units, vectors)
                    /\ Cardinality({ j \in 1..(i - 1) :
                          sorted[j] \in searchVector(units, vectors) }) < limit } }

\* ------------------------------------------- the embedding worker's messages
\* embeddingWorker.on('message') for a 'result' or 'error' message that
\* carries the id of a request: the entry of that id settles and is deleted;
\* without an entry of that id the message is dropped
WorkerMessage(type, eid) ==
    LET pending == { e \in pendingEmbeddings : e.eid = eid }
    IN  IF pending # {}
        THEN \E e \in pending : IF type = "result" THEN EmbedResult(e) ELSE EmbedError(e)
        ELSE /\ CanRunMacrotask
             /\ Alive
             /\ inLineLoop' = FALSE
             /\ UNCHANGED << units, edges, vectors, recallCache, rate, workerReady,
                             pendingEmbeddings, nextEmbed, microtasks, nextRid, stdout, now >>

\* embeddingWorker.on('error'): the worker thread died; the requests it
\* had not answered stay in the map until their timers fire
WorkerFailed ==
    /\ CanRunMacrotask
    /\ Alive
    /\ workerReady
    /\ workerReady' = FALSE
    /\ inLineLoop' = FALSE
    /\ UNCHANGED << units, edges, vectors, recallCache, rate, pendingEmbeddings,
                    nextEmbed, microtasks, nextRid, stdout, now >>

WORKER_REPLIES == { "result", "error" }

NextEmbed ==
    \/ \E content \in Contents : StoreMemory("DECISION", content)
    \/ \E query \in Queries : RecallMemory(query)
    \/ RunMicrotask
    \/ WorkerReady
    \/ WorkerFailed
    \/ \E type \in WORKER_REPLIES, eid \in 1..nextEmbed : WorkerMessage(type, eid)
    \/ \E e \in pendingEmbeddings : EmbedTimeout(e)

\* the event loop runs the continuations that are queued, and a timer that
\* is armed fires
SpecEmbed ==
    /\ Init
    /\ [][NextEmbed]_vars
    /\ WF_vars(RunMicrotask)
    /\ WF_vars(\E e \in pendingEmbeddings : EmbedTimeout(e))

\* the answers to request rid that are written or about to be written
AnswersTo(rid) ==
    Cardinality({ k \in 1..Len(stdout) : stdout[k].rid = rid })
    + Cardinality({ k \in 1..Len(microtasks) : microtasks[k].resp.rid = rid })

\* a recall whose embedding request is pending has no answer yet, and one
\* whose request settled continued exactly once
RecallContinuesOnce ==
    \A rid \in 1..nextRid :
        LET waiting == { e \in pendingEmbeddings : e.kind = "recall" /\ e.rid = rid }
        IN  /\ Cardinality(waiting) <= 1
            /\ waiting # {} => AnswersTo(rid) = 0
            /\ waiting = {} => AnswersTo(rid) = 1

\* an entry leaves the map in the step that settles it (a store's vector is
\* written or not, a recall continues), entries carry fresh ids, and a
\* vector is written only by the step that settles its request
SettledWhenRemoved ==
    /\ \A e \in pendingEmbeddings \ pendingEmbeddings' :
          /\ pendingEmbeddings' = pendingEmbeddings \ { e }
          /\ IF e.kind = "store"
             THEN vectors' \in { vectors, vectors \cup { e.memId } } /\ microtasks' = microtasks
             ELSE /\ Len(microtasks') = Len(microtasks) + 1
                  /\ microtasks'[Len(microtasks')].resp.rid = e.rid
                  /\ vectors' = vectors
    /\ \A e \in pendingEmbeddings' \ pendingEmbeddings :
          /\ e.eid = nextEmbed + 1
          /\ nextEmbed' = nextEmbed + 1
    /\ vectors' # vectors => \E e \in pendingEmbeddings \ pendingEmbeddings' : e.kind = "store"

\* C40: every embedding request sent to the worker settles exactly once, its
\* entry is removed from the pending map in the step that settles it, and a
\* worker reply for a request that is no longer in the map has no effect
C40_EmbedSettlesExactlyOnce ==
    /\ [] RecallContinuesOnce
    /\ [][SettledWhenRemoved]_vars
    /\ \A eid \in 1..MaxRequests :
          (\E e \in pendingEmbeddings : e.eid = eid) ~> ~(\E e \in pendingEmbeddings : e.eid = eid)

\* two requests were sent: the first, of a recall, was rejected (by an error
\* reply or by its timer) and the recall answered once; the second is still
\* pending, and a reply that carries the first's id finds no entry
C40_Witness ==
    /\ nextEmbed = 2
    /\ { e.eid : e \in pendingEmbeddings } = { 2 }
    /\ \E k \in 1..Len(stdout) :
          /\ stdout[k].tool = "recall_memory"
          /\ stdout[k].isError
          /\ AnswersTo(stdout[k].rid) = 1

=============================================================================
